---- MODULE Spec2Model ----
(***************************************************************************)
(* Rule-based HTTP-traffic-to-graph pipeline of the IDOR detection tool:   *)
(* YAMLRuleBasedParser.parse_request (the graph mapper), and               *)
(* RuleBasedGraphLoader.load_request (persistence adapter and temporal     *)
(* sequencer) running against a Neo4j-like store with MERGE semantics.     *)
(*                                                                         *)
(* Strings are TLA+ strings and \o is Python's + on str.  Python's hash()  *)
(* on str is modelled as collision free (the identity), so two ids are     *)
(* equal exactly when the concatenated strings that are hashed are equal.  *)
(***************************************************************************)
EXTENDS Integers, Sequences, FiniteSets, TLC

VARIABLES
    store_nodes,        \* graph store: node key <<id, label set>> -> properties
    store_rels,         \* graph store: <<source key, type, target key>> -> properties
    user_last_request,  \* RuleBasedGraphLoader.user_last_request: user_id -> <<request id, timestamp>>
    pc,                 \* per worker thread: position inside load_request
    frame,              \* per worker thread: locals of the running load_request
    calls,              \* every load_request call so far: request, draft graph, outcome
    failures,           \* number of store calls that raised so far
    batch,              \* the running load_requests call: its list, position and stats
    rules,              \* YAMLRuleBasedParser.rules['endpoint_patterns'] as last loaded
    endpoint_node,      \* the node _create_endpoint_node returned last under these rules
    data,               \* GeminiClient: the graph data of a batch and how far it is converted
    endpoint_cache,     \* GraphBuilder.endpoint_cache: cache key -> endpoint id
    builder,            \* GraphBuilder: the running process_message call and the ids generated
    processed,          \* every process_message call so far: message, key, ids, outcome
    processor,          \* BatchProcessor: current_batch, message_count, lock, and its history
    worker,             \* per thread: position inside add_message or flush, and its locals
    dispatched          \* the batches given to a _process_batch_async thread, in order

\* the state of the BatchProcessor
processor_vars == <<processor, worker, dispatched>>

\* the state outside the rule-based loader
pipeline_vars == <<data, endpoint_cache, builder, processed, processor_vars>>

vars == <<store_nodes, store_rels, user_last_request, pc, frame, calls, failures,
          batch, rules, endpoint_node, pipeline_vars>>

\* ---------------------------------------------------------------- bounds
MaxCalls == 2           \* load_request calls per behaviour of Spec
MaxChain == 3           \* load_request calls per behaviour of ChainSpec and ConcSpec
MaxFailures == 1        \* store calls that raise per behaviour
MaxAnalyze == 2         \* analyze calls per behaviour of AnalyzeSpec
MaxBatch == 2           \* length of the longest list given to load_requests
MaxRules == 3           \* length of the longest list of endpoint patterns
MaxMap == 2             \* parse_request calls per behaviour of MapSpec
MaxRef == 1             \* largest array position the converter's answer refers to
MaxMessages == 2        \* process_message calls per behaviour of BuilderSpec
MaxParse == 2           \* parse_request calls per behaviour of ParserSpec
MaxAdds == 3            \* add_message calls per behaviour of ProcessorSpec
MaxFlushes == 2         \* flush calls per behaviour of ProcessorSpec
MaxBatchSize == 2       \* largest settings.batch_size of ProcessorSpec
DeepLevels == 7         \* nesting levels of the deepest JSON body of the inputs

\* depth limit of _parse_body_fields ("if depth > 5")
MaxDepth == 5

\* length limit of a stored header value ("str(header_value)[:100]")
ValueLimit == 100

NoVal == "<None>"       \* Python's None
NoMatch == "<no match>" \* re.match / re.search returned None

Threads == {"t1", "t2"}

\* ------------------------------------------------------- sequence helpers
RECURSIVE Concat(_)
Concat(ss) == IF ss = <<>> THEN <<>> ELSE Head(ss) \o Concat(Tail(ss))

RECURSIVE JoinStr(_)
JoinStr(ss) == IF ss = <<>> THEN "" ELSE Head(ss) \o JoinStr(Tail(ss))

Range(s) == {s[i] : i \in 1..Len(s)}

\* dict.get(key, default) on an ordered dict kept as a sequence of <<key, value>>
DictGet(d, key, default) ==
    IF \E i \in 1..Len(d) : d[i][1] = key
    THEN d[CHOOSE i \in 1..Len(d) : d[i][1] = key /\ \A j \in (i+1)..Len(d) : d[j][1] # key][2]
    ELSE default

DictHas(d, key) == \E i \in 1..Len(d) : d[i][1] = key

\* str[:n]
Truncate(str, n) == IF Len(str) <= n THEN str ELSE SubSeq(str, 1, n)

\* str(int) for the small indices the model uses
IntStr(n) ==
    CASE n = 0 -> "0" [] n = 1 -> "1" [] n = 2 -> "2" [] n = 3 -> "3" [] n = 4 -> "4"
      [] n = 5 -> "5" [] n = 6 -> "6" [] n = 7 -> "7" [] n = 8 -> "8" [] n = 9 -> "9"
      [] OTHER -> "10+"

\* ---------------------------------------------------------- the rule set
\* A rule set as _load_rules returns it, with the sections and keys the parser
\* reads; its content is an input of the model.  A regex is kept by name;
\* Regex gives, for the strings of the bounded input domain, what re.match /
\* re.search returns: the text of capture group 1, or NoMatch.
RegexTable ==
    { <<"^/users/(\\d+)", "/users/42", "42">>,
      <<"^/users/(\\d+)", "/users/7", "7">>,
      <<"^/login", "/login", "">>,
      <<"^/", "/users/42", "">>,
      <<"^/", "/users/7", "">>,
      <<"^/", "/login", "">>,
      <<"(^|_)id$", "user_id", "_">>,
      <<"(^|_)id$", "id", "">>,
      <<"userId=(\\d+)", "userId=7", "7">>,
      <<"username=(\\w+)", "username=alice", "alice">>,
      <<"username=(\\w+)", "username=carol", "carol">>,
      <<"username=(\\w+)", "username=42", "42">> }

Regex(pattern, s) ==
    IF \E e \in RegexTable : e[1] = pattern /\ e[2] = s
    THEN (CHOOSE e \in RegexTable : e[1] = pattern /\ e[2] = s)[3]
    ELSE NoMatch

ParameterPatterns ==
    << [type |-> "ID_REFERENCE", patterns |-> <<"(^|_)id$">>],
       [type |-> "GENERIC", patterns |-> <<>>] >>

HeaderPatterns ==
    << [category |-> "AUTH", headers |-> {"Authorization"}, is_sensitive |-> TRUE],
       [category |-> "CONTENT", headers |-> {"Content-Type"}, is_sensitive |-> FALSE] >>

EndpointPatterns ==
    << [pattern |-> "^/login", type |-> "AUTH", requires_auth |-> FALSE],
       [pattern |-> "^/users/(\\d+)", type |-> "USER", requires_auth |-> TRUE],
       [pattern |-> "^/", type |-> "API", requires_auth |-> FALSE] >>

UserExtraction ==
    [ jwt |-> [enabled |-> TRUE, header_prefix |-> "Bearer ",
               user_id_claims |-> <<"sub", "user_id">>,
               username_claims |-> <<"name", "username">>],
      cookie |-> [enabled |-> TRUE,
                  patterns |-> <<"userId=(\\d+)", "username=(\\w+)">>] ]

ResourceExtraction ==
    [ url_patterns |-> << [pattern |-> "^/users/(\\d+)", resource_type |-> "user"] >>,
      parameter_patterns |-> << [resource_type |-> "user", names |-> <<"user_id", "uid">>] >> ]

\* 'userId' in pattern or 'user_id' in pattern / 'username' in pattern
CookiePatternKind(pattern) ==
    CASE pattern = "userId=(\\d+)" -> "user_id"
      [] pattern = "username=(\\w+)" -> "username"
      [] OTHER -> "other"

\* ------------------------------------------------------------ the inputs
\* JSON values as json.loads returns them; a dict is an ordered sequence of
\* <<key, value>>.  kind "none" is a missing body, "text" a raw (non-JSON) body.
JNone == [kind |-> "none", s |-> "", items |-> <<>>]
JText(str) == [kind |-> "text", s |-> str, items |-> <<>>]
JScalar(str) == [kind |-> "scalar", s |-> str, items |-> <<>>]
JDict(its) == [kind |-> "dict", s |-> "", items |-> its]
JList(its) == [kind |-> "list", s |-> "", items |-> its]
JNum(str) == [kind |-> "num", s |-> str, items |-> <<>>]
JBool(str) == [kind |-> "bool", s |-> str, items |-> <<>>]

RECURSIVE Nested(_)
Nested(n) == IF n = 0 THEN JScalar("v") ELSE JDict(<< <<"k", Nested(n - 1)>> >>)

\* str(value) of a JSON value (Python's repr of a dict)
RECURSIVE PyStr(_)
RECURSIVE PyStrItems(_)
RECURSIVE PyStrElems(_)
PyStrElems(its) ==
    IF its = <<>> THEN ""
    ELSE (IF Head(its).kind = "scalar" THEN "'" \o PyStr(Head(its)) \o "'" ELSE PyStr(Head(its)))
         \o (IF Tail(its) = <<>> THEN "" ELSE ", " \o PyStrElems(Tail(its)))
PyStrItems(its) ==
    IF its = <<>> THEN ""
    ELSE "'" \o Head(its)[1] \o "': "
         \o (IF Head(its)[2].kind = "dict" THEN PyStr(Head(its)[2])
             ELSE "'" \o PyStr(Head(its)[2]) \o "'")
         \o (IF Tail(its) = <<>> THEN "" ELSE ", " \o PyStrItems(Tail(its)))
PyStr(v) ==
    CASE v.kind = "none" -> "None"
      [] v.kind = "dict" -> "{" \o PyStrItems(v.items) \o "}"
      [] v.kind = "list" -> "[" \o PyStrElems(v.items) \o "]"
      [] OTHER -> v.s

\* bool(body): "if not http_request.body"
Truthy(v) ==
    CASE v.kind = "none" -> FALSE
      [] v.kind = "dict" -> v.items # <<>>
      [] v.kind = "list" -> v.items # <<>>
      [] v.kind = "num" -> v.s # "0"
      [] v.kind = "bool" -> v.s = "True"
      [] OTHER -> v.s # ""

T10 == "2024-01-01T00:00:10"
T25 == "2024-01-01T00:00:25"
TBad == "yesterday"

BobJwt == "Bearer jwt.42bob.sig"
NameJwt == "Bearer jwt.bob.sig"     \* a token whose payload names the user only

Req(method, path, query, headers, body, timestamp) ==
    [method |-> method, path |-> path, query |-> query, headers |-> headers,
     body |-> body, timestamp |-> timestamp, version |-> "HTTP/1.1"]

\* The requests a behaviour draws from (HTTPRequest values as HTTPParser builds them).
BobAt10 == Req("GET", "/users/42", << <<"debug", "true">> >>,
               << <<"Host", "h1">>, <<"Authorization", BobJwt>> >>, JNone, T10)
BobAt25 == Req("GET", "/users/42", << <<"user_id", "42">> >>,
               << <<"Host", "h2">>, <<"Authorization", BobJwt>> >>, JNone, T25)
BobNoTime == Req("GET", "/users/42", << <<"debug", "true">> >>,
                 << <<"Host", "h1">>, <<"Authorization", BobJwt>> >>, JNone, "")
Alice == Req("GET", "/login", <<>>,
             << <<"Host", "h1">>, <<"Cookie", "username=alice">> >>, JNone, "")
AliceAt25 == Req("GET", "/login", <<>>,
                 << <<"Host", "h1">>, <<"Cookie", "username=alice">> >>, JNone, T25)
Carol == Req("GET", "/login", << <<"a", "bc">>, <<"ab", "c">> >>,
             << <<"Host", "h1">>, <<"Cookie", "username=carol">> >>, JNone, TBad)
DeepPost == Req("POST", "/login", <<>>, << <<"Host", "h1">> >>, Nested(DeepLevels), "")

Requests == {BobAt10, BobAt25, Alice, DeepPost}

\* the requests that carry a user
UserRequests == {BobAt10, BobAt25, BobNoTime, Alice, AliceAt25, Carol}

\* the requests of one user
BobRequests == {BobAt10, BobAt25, BobNoTime}

\* requests that differ in where the user and the resource are found
BobWithCookie == Req("GET", "/users/42", <<>>,
                     << <<"Host", "h1">>, <<"Authorization", BobJwt>>, <<"Cookie", "userId=7">> >>,
                     JNone, T10)
NamedWithCookie == Req("GET", "/login", <<>>,
                       << <<"Host", "h1">>, <<"Authorization", NameJwt>>, <<"Cookie", "userId=7">> >>,
                       JNone, T10)
Named == Req("GET", "/login", <<>>, << <<"Host", "h1">>, <<"Authorization", NameJwt>> >>,
             JNone, T10)
Seven == Req("GET", "/login", <<>>, << <<"Host", "h1">>, <<"Cookie", "userId=7">> >>, JNone, T10)
Username42 == Req("GET", "/login", <<>>, << <<"Host", "h1">>, <<"Cookie", "username=42">> >>,
                  JNone, T25)
DeleteBob == Req("DELETE", "/users/42", << <<"user_id", "42">> >>, << <<"Host", "h1">> >>,
                 JNone, T10)
OptionsBob == Req("OPTIONS", "/users/42", << <<"uid", "42">>, <<"user_id", "42">> >>,
                  << <<"Host", "h1">> >>, JNone, T10)
TwoParams == Req("GET", "/login", << <<"user_id", "7">>, <<"uid", "7">> >>,
                 << <<"Host", "h1">> >>, JNone, T10)
OtherParams == Req("PUT", "/users/42", << <<"user_id", "7">>, <<"uid", "42">> >>,
                   << <<"Host", "h1">> >>, JNone, T10)

\* the requests of MapSpec
MapRequests ==
    {BobAt10, BobAt25, Alice, DeepPost, BobWithCookie, NamedWithCookie, Named, Seven,
     Username42, DeleteBob, OptionsBob, TwoParams, OtherParams}

\* a request whose Host makes the mapping raise
BadHost == Req("GET", "/login", <<>>, << <<"Host", "[::1">> >>, JNone, "")

\* the requests of the lists given to load_requests
BatchRequests == {BobAt10, Alice, BadHost}

\* HTTPRequest.path is the raw request target: path plus query string
RECURSIVE QueryString(_)
QueryString(q) ==
    IF q = <<>> THEN ""
    ELSE Head(q)[1] \o "=" \o Head(q)[2]
         \o (IF Tail(q) = <<>> THEN "" ELSE "&" \o QueryString(Tail(q)))

RawTarget(req) == req.path \o (IF req.query = <<>> THEN "" ELSE "?" \o QueryString(req.query))

\* HTTPRequest.url
Url(req) ==
    (IF DictGet(req.headers, "X-Forwarded-Proto", NoVal) = "https" THEN "https" ELSE "http")
    \o "://" \o DictGet(req.headers, "Host", "unknown") \o RawTarget(req)

\* urlparse(url).path or '/'
UrlPath(req) == IF req.path = "" THEN "/" ELSE req.path

\* parse_qs(parsed_url.query): name -> list of values, names in first-occurrence
\* order, blank values dropped
RECURSIVE QsNames(_, _)
QsNames(q, seen) ==
    IF q = <<>> THEN <<>>
    ELSE IF Head(q)[1] \in seen \/ Head(q)[2] = "" THEN QsNames(Tail(q), seen)
    ELSE <<Head(q)[1]>> \o QsNames(Tail(q), seen \cup {Head(q)[1]})

RECURSIVE QsValues(_, _)
QsValues(q, name) ==
    IF q = <<>> THEN <<>>
    ELSE (IF Head(q)[1] = name /\ Head(q)[2] # "" THEN <<Head(q)[2]>> ELSE <<>>)
         \o QsValues(Tail(q), name)

ParseQs(q) == [i \in 1..Len(QsNames(q, {})) |->
                 <<QsNames(q, {})[i], QsValues(q, QsNames(q, {})[i])>>]

\* ------------------------------------------------------- the HTTP parser
\* A raw request as analyze receives it: "start" is the request line cut at every
\* blank (so that joining it with blanks gives the line back), "headers" the
\* header lines as <<key, value>>, "body_raw" the text after the empty line.
RawReq(start, headers, body_raw, timestamp) ==
    [start |-> start, headers |-> headers, body_raw |-> body_raw, timestamp |-> timestamp]

RECURSIVE JoinBlank(_)
JoinBlank(ss) ==
    IF ss = <<>> THEN ""
    ELSE Head(ss) \o (IF Tail(ss) = <<>> THEN "" ELSE " " \o JoinBlank(Tail(ss)))

\* request_line.split(' ', 2): at most two cuts, the rest stays one part
SplitRequestLine(start) ==
    IF Len(start) <= 3 THEN start
    ELSE <<start[1], start[2], JoinBlank(SubSeq(start, 3, Len(start)))>>

\* "if len(parts) != 3: raise ValueError"
RequestLineRaises(raw) == Len(SplitRequestLine(raw.start)) # 3

\* urlparse / parse_qs on the request targets of the input domain:
\* <<target, path, query as <<name, value>> pairs>>
TargetTable ==
    { <<"/login", "/login", <<>> >>,
      <<"/users/42?debug=true", "/users/42", << <<"debug", "true">> >> >>,
      <<"", "", <<>> >> }

TargetOf(target) == CHOOSE e \in TargetTable : e[1] = target

\* json.loads on the body texts of the input domain; a text that is not listed
\* does not decode (json.JSONDecodeError)
JsonTable ==
    { <<"{}", JDict(<<>>)>>,
      <<"[]", JList(<<>>)>>,
      <<"0", JNum("0")>>,
      <<"false", JBool("False")>>,
      <<"{\"k\": \"v\"}", JDict(<< <<"k", JScalar("v")>> >>)>> }

\* "not body_raw or not body_raw.strip()"
Blank(body_raw) == body_raw \in {"", " "}

\* 'application/json' in content_type
IsJsonType(content_type) ==
    content_type \in {"application/json", "application/json; charset=utf-8"}

\* HTTPParser._parse_body
ParseBody(body_raw, content_type) ==
    IF Blank(body_raw) THEN JNone
    ELSE IF IsJsonType(content_type) /\ \E e \in JsonTable : e[1] = body_raw
    THEN (CHOOSE e \in JsonTable : e[1] = body_raw)[2]
    ELSE JText(body_raw)

\* HTTPParser.parse_request, when the request line has its three parts
HttpRequestOf(raw) ==
    LET parts == SplitRequestLine(raw.start)
    IN  [Req(parts[1], TargetOf(parts[2])[2], TargetOf(parts[2])[3], raw.headers,
             ParseBody(raw.body_raw, DictGet(raw.headers, "Content-Type", "")),
             raw.timestamp)
         EXCEPT !.version = parts[3]]

\* the HTTPRequest that does not exist because parse_request raised
NoRequest == Req("", "", <<>>, <<>>, JNone, "")

\* The raw requests a behaviour of AnalyzeSpec draws from.
JsonPost(body_raw) ==
    RawReq(<<"POST", "/login", "HTTP/1.1">>,
           << <<"Host", "h1">>, <<"Content-Type", "application/json">> >>, body_raw, "")

RawBob == RawReq(<<"GET", "/users/42?debug=true", "HTTP/1.1">>,
                 << <<"Host", "h1">>, <<"Authorization", BobJwt>> >>, "", T10)
RawTwoFields == RawReq(<<"GET", "/login">>, << <<"Host", "h1">> >>, "", "")
RawFourFields == RawReq(<<"GET", "/login", "extra", "HTTP/1.1">>, << <<"Host", "h1">> >>, "", "")
RawBadHost == RawReq(<<"GET", "/login", "HTTP/1.1">>, << <<"Host", "[::1">> >>, "", "")
RawText == RawReq(<<"POST", "/login", "HTTP/1.1">>, << <<"Host", "h1">> >>, "hello", "")

RawRequests ==
    {RawBob, RawTwoFields, RawFourFields, RawBadHost, RawText,
     JsonPost("{}"), JsonPost("[]"), JsonPost("0"), JsonPost("false"),
     JsonPost("{\"k\": \"v\"}"), JsonPost(" ")}

\* --------------------------------------------------- the graph mapper
Node(id, labels, properties) == [id |-> id, labels |-> labels, properties |-> properties]
Rel(source_id, target_id, type, properties) ==
    [source_id |-> source_id, target_id |-> target_id, type |-> type, properties |-> properties]

NoGraph == [nodes |-> <<>>, rels |-> <<>>]
Extend(g, h) == [nodes |-> g.nodes \o h.nodes, rels |-> g.rels \o h.rels]

\* _create_request_node: the node id
RequestId(req) == "request_" \o (Url(req) \o req.method \o req.timestamp)

CreateRequestNode(req) ==
    Node(RequestId(req), <<"Request">>,
         [method |-> req.method, url |-> Url(req), timestamp |-> req.timestamp,
          protocol |-> req.version])

\* _classify_parameter: first type (GENERIC skipped) with a pattern that matches
RECURSIVE ClassifyFrom(_, _)
ClassifyFrom(k, name) ==
    IF k > Len(ParameterPatterns) THEN "GENERIC"
    ELSE IF ParameterPatterns[k].type # "GENERIC"
            /\ \E i \in 1..Len(ParameterPatterns[k].patterns) :
                   Regex(ParameterPatterns[k].patterns[i], name) # NoMatch
         THEN ParameterPatterns[k].type
         ELSE ClassifyFrom(k + 1, name)

ClassifyParameter(name) == ClassifyFrom(1, name)

\* _extract_parameters: the node id of one occurrence
ParamId(request_id, name, value, idx) == "param_" \o (request_id \o name \o value \o IntStr(idx))

ParamValuesGraph(request_id, name, values) ==
    [nodes |-> [i \in 1..Len(values) |->
                  Node(ParamId(request_id, name, values[i], i - 1),
                       <<"Parameter", ClassifyParameter(name)>>,
                       [name |-> name, value |-> values[i],
                        type |-> ClassifyParameter(name), location |-> "query"])],
     rels |-> [i \in 1..Len(values) |->
                  Rel(request_id, ParamId(request_id, name, values[i], i - 1),
                      "HAS_PARAMETER", [position |-> i - 1, required |-> FALSE])]]

RECURSIVE ParamsFrom(_, _, _)
ParamsFrom(qs, k, request_id) ==
    IF k > Len(qs) THEN NoGraph
    ELSE Extend(ParamValuesGraph(request_id, qs[k][1], qs[k][2]),
                ParamsFrom(qs, k + 1, request_id))

ExtractParameters(req, request_id) == ParamsFrom(ParseQs(req.query), 1, request_id)

\* _classify_header: first category listing the header name; category NoVal when
\* the header matches none (the code returns None)
ClassifyHeader(name) ==
    IF \E k \in 1..Len(HeaderPatterns) : name \in HeaderPatterns[k].headers
    THEN HeaderPatterns[CHOOSE k \in 1..Len(HeaderPatterns) :
                          /\ name \in HeaderPatterns[k].headers
                          /\ \A j \in 1..(k - 1) : name \notin HeaderPatterns[j].headers]
    ELSE [category |-> NoVal, headers |-> {}, is_sensitive |-> FALSE]

HeaderId(request_id, name, idx) == "header_" \o (request_id \o name \o IntStr(idx))

\* _extract_headers: idx counts every header, classified or not
RECURSIVE HeadersFrom(_, _, _)
HeadersFrom(hs, k, request_id) ==
    IF k > Len(hs) THEN NoGraph
    ELSE IF ClassifyHeader(hs[k][1]).category = NoVal THEN HeadersFrom(hs, k + 1, request_id)
    ELSE Extend(
           [nodes |-> << Node(HeaderId(request_id, hs[k][1], k - 1),
                              <<"Header", ClassifyHeader(hs[k][1]).category>>,
                              [name |-> hs[k][1], value |-> Truncate(hs[k][2], ValueLimit),
                               is_sensitive |-> ClassifyHeader(hs[k][1]).is_sensitive,
                               category |-> ClassifyHeader(hs[k][1]).category]) >>,
            rels |-> << Rel(request_id, HeaderId(request_id, hs[k][1], k - 1),
                            "HAS_HEADER", [order |-> k - 1]) >>],
           HeadersFrom(hs, k + 1, request_id))

\* mutant: parse_request forgets relationships.extend(header_rels)
ExtractHeadersNoRels(req, request_id) ==
    [nodes |-> HeadersFrom(req.headers, 1, request_id).nodes, rels |-> <<>>]

ExtractHeaders(req, request_id) == HeadersFrom(req.headers, 1, request_id)

\* mutant: the depth limit is applied one level too late
DepthExceededLate(depth) == depth > MaxDepth + 1

\* _parse_body_fields: "if depth > 5: return"
DepthExceeded(depth) == depth > MaxDepth

FieldId(parent_id, field_path) == "field_" \o (parent_id \o field_path)

RECURSIVE ParseBodyFields(_, _, _, _)
RECURSIVE FieldsFrom(_, _, _, _, _)
FieldsFrom(items, k, parent_id, prefix, depth) ==
    IF k > Len(items) THEN NoGraph
    ELSE LET key == items[k][1]
             value == items[k][2]
             field_path == IF prefix # "" THEN prefix \o "." \o key ELSE key
             field_id == FieldId(parent_id, field_path)
             type == ClassifyParameter(key)
             own == [nodes |-> << Node(field_id, <<"BodyField", type>>,
                                       [name |-> key,
                                        value |-> IF value.kind = "scalar" THEN value.s ELSE NoVal,
                                        type |-> type, path |-> field_path]) >>,
                     rels |-> << Rel(parent_id, field_id, "HAS_FIELD", [depth |-> depth]) >>]
             nested == IF value.kind = "dict"
                       THEN ParseBodyFields(value.items, field_id, field_path, depth + 1)
                       ELSE NoGraph
         IN  Extend(Extend(own, nested), FieldsFrom(items, k + 1, parent_id, prefix, depth))

ParseBodyFields(items, parent_id, prefix, depth) ==
    IF DepthExceeded(depth) THEN NoGraph
    ELSE FieldsFrom(items, 1, parent_id, prefix, depth)

BodyId(request_id, body) == "body_" \o (request_id \o PyStr(body))

\* _extract_body
ExtractBody(req, request_id) ==
    IF ~Truthy(req.body) THEN NoGraph
    ELSE Extend(
           [nodes |-> << Node(BodyId(request_id, req.body), <<"Body">>,
                              [content_type |-> DictGet(req.headers, "Content-Type", "unknown")]) >>,
            rels |-> << Rel(request_id, BodyId(request_id, req.body), "HAS_BODY",
                            [encoding |-> IF req.body.kind = "dict" THEN "json" ELSE "text"]) >>],
           IF req.body.kind = "dict"
           THEN ParseBodyFields(req.body.items, BodyId(request_id, req.body), "", 0)
           ELSE NoGraph)

\* str.upper() on the method names and resource types of the input domain
Upper(str) ==
    CASE str = "get" -> "GET" [] str = "post" -> "POST" [] str = "user" -> "USER"
      [] OTHER -> str

\* mutant: the loop over the endpoint patterns has no break, the last match wins
RECURSIVE EndpointRuleInLast(_, _, _)
EndpointRuleInLast(patterns, k, path) ==
    IF k > Len(patterns) THEN 0
    ELSE IF EndpointRuleInLast(patterns, k + 1, path) # 0
    THEN EndpointRuleInLast(patterns, k + 1, path)
    ELSE IF Regex(patterns[k].pattern, path) # NoMatch THEN k
    ELSE 0

\* _create_endpoint_node, "for pattern_config in self.rules['endpoint_patterns']":
\* index of the first pattern from k on that matches the path, 0 if none
RECURSIVE EndpointRuleIn(_, _, _)
EndpointRuleIn(patterns, k, path) ==
    IF k > Len(patterns) THEN 0
    ELSE IF Regex(patterns[k].pattern, path) # NoMatch THEN k
    ELSE EndpointRuleIn(patterns, k + 1, path)

\* the same under the rule set of the input domain
EndpointRuleFrom(k, path) == EndpointRuleIn(EndpointPatterns, k, path)

EndpointId(method, path) == "endpoint_" \o method \o "_" \o path

\* mutant: the Endpoint id is taken from the full URL instead of the path
CreateEndpointNodeFromUrl(req) ==
    LET path == UrlPath(req)
        k == EndpointRuleFrom(1, path)
    IN  Node(EndpointId(req.method, Url(req)),
             <<"Endpoint", IF k = 0 THEN "GENERIC" ELSE EndpointPatterns[k].type>>,
             [path |-> path, method |-> req.method,
              domain |-> DictGet(req.headers, "Host", "unknown"),
              type |-> IF k = 0 THEN "GENERIC" ELSE EndpointPatterns[k].type,
              requires_auth |-> IF k = 0 THEN FALSE ELSE EndpointPatterns[k].requires_auth])

\* _create_endpoint_node under the endpoint patterns that are loaded
CreateEndpointNodeUnder(patterns, req) ==
    LET path == UrlPath(req)
        k == EndpointRuleIn(patterns, 1, path)
        endpoint_type == IF k = 0 THEN "GENERIC" ELSE patterns[k].type
        requires_auth == IF k = 0 THEN FALSE ELSE patterns[k].requires_auth
    IN  Node(EndpointId(req.method, path), <<"Endpoint", endpoint_type>>,
             [path |-> path, method |-> req.method,
              domain |-> DictGet(req.headers, "Host", "unknown"),
              type |-> endpoint_type, requires_auth |-> requires_auth])

\* _create_endpoint_node under the rule set of the input domain
CreateEndpointNode(req) == CreateEndpointNodeUnder(EndpointPatterns, req)

\* auth_header.startswith(prefix), auth_header[len(prefix):] and _decode_jwt_payload,
\* on the Authorization values of the input domain: <<header value, token, payload>>;
\* a token that does not decode gives the empty payload (None and {} are both falsy)
JwtTable ==
    { <<BobJwt, "jwt.42bob.sig", << <<"sub", "42">>, <<"name", "bob">> >> >>,
      <<NameJwt, "jwt.bob.sig", << <<"name", "bob">> >> >> }

BearerToken(auth_header) ==
    IF \E e \in JwtTable : e[1] = auth_header
    THEN (CHOOSE e \in JwtTable : e[1] = auth_header)[2]
    ELSE NoVal

DecodeJwtPayload(token) ==
    IF \E e \in JwtTable : e[2] = token
    THEN (CHOOSE e \in JwtTable : e[2] = token)[3]
    ELSE <<>>

\* "for claim in claims: if claim in payload: ... break"
RECURSIVE FirstClaim(_, _, _)
FirstClaim(claims, k, payload) ==
    IF k > Len(claims) THEN NoVal
    ELSE IF DictHas(payload, claims[k]) THEN DictGet(payload, claims[k], NoVal)
    ELSE FirstClaim(claims, k + 1, payload)

\* Python truthiness of an Optional[str]
Found(v) == v # NoVal /\ v # ""

\* _extract_user, JWT part: [user_id, username, auth_method, token_preview]
JwtUser(req) ==
    LET none == [user_id |-> NoVal, username |-> NoVal, auth_method |-> NoVal,
                 token_preview |-> NoVal]
        token == BearerToken(DictGet(req.headers, "Authorization", ""))
        payload == DecodeJwtPayload(token)
        uid == FirstClaim(UserExtraction.jwt.user_id_claims, 1, payload)
        uname == FirstClaim(UserExtraction.jwt.username_claims, 1, payload)
    IN  IF ~UserExtraction.jwt.enabled \/ token = NoVal THEN none
        ELSE IF payload = <<>> THEN [none EXCEPT !.token_preview = token]
        ELSE [user_id |-> uid, username |-> uname,
              auth_method |-> IF Found(uid) \/ Found(uname) THEN "jwt" ELSE NoVal,
              token_preview |-> token]

\* _extract_user, cookie part: every matching pattern overwrites what it names
RECURSIVE CookieFrom(_, _, _)
CookieFrom(k, cookie_header, u) ==
    IF k > Len(UserExtraction.cookie.patterns) THEN u
    ELSE LET pattern == UserExtraction.cookie.patterns[k]
             m == Regex(pattern, cookie_header)
         IN  CookieFrom(k + 1, cookie_header,
                 IF m = NoMatch THEN u
                 ELSE IF CookiePatternKind(pattern) = "user_id"
                      THEN [u EXCEPT !.user_id = m, !.auth_method = "cookie"]
                 ELSE IF CookiePatternKind(pattern) = "username"
                      THEN [u EXCEPT !.username = m, !.auth_method = "cookie"]
                 ELSE u)

\* mutant: the cookie rules are applied whatever the JWT gave
ResolveUserCookieAlways(req) ==
    CookieFrom(1, DictGet(req.headers, "Cookie", ""), JwtUser(req))

\* "if not user_id and user_config.get('cookie', {}).get('enabled')"
ResolveUser(req) ==
    IF ~Found(JwtUser(req).user_id) /\ UserExtraction.cookie.enabled
    THEN CookieFrom(1, DictGet(req.headers, "Cookie", ""), JwtUser(req))
    ELSE JwtUser(req)

\* "user_{user_id or username}"
UserNodeId(user_id, username) == "user_" \o (IF Found(user_id) THEN user_id ELSE username)

OrDefault(v, default) == IF Found(v) THEN v ELSE default

ExtractUser(req, request_id) ==
    LET u == ResolveUser(req)
    IN  IF ~(Found(u.user_id) \/ Found(u.username)) THEN NoGraph
        ELSE [nodes |-> << Node(UserNodeId(u.user_id, u.username), <<"User">>,
                                [user_id |-> OrDefault(u.user_id, "unknown"),
                                 username |-> OrDefault(u.username, "unknown"),
                                 auth_method |-> OrDefault(u.auth_method, "unknown"),
                                 token_preview |-> OrDefault(u.token_preview, "")]) >>,
              rels |-> << Rel(request_id, UserNodeId(u.user_id, u.username), "AUTHENTICATED_AS",
                              [auth_method |-> OrDefault(u.auth_method, "unknown"),
                               timestamp |-> req.timestamp]) >>]

\* operation_map.get(method, 'access')
Operation(method) ==
    CASE method = "GET" -> "read" [] method = "POST" -> "create" [] method = "PUT" -> "update"
      [] method = "PATCH" -> "update" [] method = "DELETE" -> "delete" [] OTHER -> "access"

\* _extract_resources, URL part: first matching url pattern
RECURSIVE UrlResourcesFrom(_, _)
UrlResourcesFrom(k, req) ==
    IF k > Len(ResourceExtraction.url_patterns) THEN <<>>
    ELSE LET rule == ResourceExtraction.url_patterns[k]
             m == Regex(rule.pattern, UrlPath(req))
         IN  IF m = NoMatch THEN UrlResourcesFrom(k + 1, req)
             ELSE << [resource_type |-> rule.resource_type, resource_id |-> m,
                      operation |-> Operation(Upper(req.method))] >>

\* _extract_resources, parameter part: flat list of <<resource type, parameter name>>
ResourceParams ==
    LET pp == ResourceExtraction.parameter_patterns
        RECURSIVE Flat(_)
        Flat(k) == IF k > Len(pp) THEN <<>>
                   ELSE [i \in 1..Len(pp[k].names) |-> <<pp[k].resource_type, pp[k].names[i]>>]
                        \o Flat(k + 1)
    IN  Flat(1)

\* mutant: a pair named by a parameter is entered whether it is there or not
RECURSIVE ParamResourcesFromAppends(_, _, _)
ParamResourcesFromAppends(k, qs, found) ==
    IF k > Len(ResourceParams) THEN found
    ELSE ParamResourcesFromAppends(k + 1, qs,
             IF DictHas(qs, ResourceParams[k][2])
             THEN Append(found, [resource_type |-> ResourceParams[k][1],
                                 resource_id |-> DictGet(qs, ResourceParams[k][2], <<NoVal>>)[1],
                                 operation |-> "access"])
             ELSE found)

\* _extract_resources, "for resource_type, param_names in param_patterns.items()"
RECURSIVE ParamResourcesFrom(_, _, _)
ParamResourcesFrom(k, qs, found) ==
    IF k > Len(ResourceParams) THEN found
    ELSE LET resource_type == ResourceParams[k][1]
             name == ResourceParams[k][2]
             resource_id == DictGet(qs, name, <<NoVal>>)[1]
         IN  ParamResourcesFrom(k + 1, qs,
                 IF DictHas(qs, name)
                    /\ ~\E i \in 1..Len(found) : /\ found[i].resource_type = resource_type
                                                 /\ found[i].resource_id = resource_id
                 THEN Append(found, [resource_type |-> resource_type,
                                     resource_id |-> resource_id, operation |-> "access"])
                 ELSE found)

ResourcesFound(req) == ParamResourcesFrom(1, ParseQs(req.query), UrlResourcesFrom(1, req))

ResourceNodeId(resource_type, resource_id) == "resource_" \o resource_type \o "_" \o resource_id

ExtractResources(req, request_id) ==
    LET found == ResourcesFound(req)
    IN  [nodes |-> [i \in 1..Len(found) |->
                      Node(ResourceNodeId(found[i].resource_type, found[i].resource_id),
                           <<"Resource", Upper(found[i].resource_type)>>,
                           [resource_id |-> found[i].resource_id,
                            resource_type |-> found[i].resource_type,
                            operation |-> found[i].operation])],
         rels |-> [i \in 1..Len(found) |->
                      Rel(request_id,
                          ResourceNodeId(found[i].resource_type, found[i].resource_id),
                          "ACCESSES",
                          [operation |-> found[i].operation, access_type |-> "direct"])]]

\* the Host values of the input domain for which urlparse(http_request.url) raises
\* ValueError ("Invalid IPv6 URL": a bracket that is not closed)
BadHosts == {"[::1"}

\* parse_request raises: its "except Exception: ... raise" passes the error on
ParseRaises(req) == DictGet(req.headers, "Host", "unknown") \in BadHosts

\* parse_request: the draft graph of one request
ParseRequest(req) ==
    LET request_id == RequestId(req)
        endpoint == [nodes |-> << CreateEndpointNode(req) >>,
                     rels |-> << Rel(request_id, CreateEndpointNode(req).id, "TARGETS",
                                     [timestamp |-> req.timestamp]) >>]
    IN  Extend([nodes |-> << CreateRequestNode(req) >>, rels |-> <<>>],
        Extend(ExtractParameters(req, request_id),
        Extend(ExtractHeaders(req, request_id),
        Extend(ExtractBody(req, request_id),
        Extend(endpoint,
        Extend(ExtractUser(req, request_id),
               ExtractResources(req, request_id)))))))

\* ------------------------------------------------------ the graph store
\* mutant: CREATE instead of MERGE, a node that is there gets a twin
MergeNodeCreates(nodes, node) ==
    LET hit == {k \in DOMAIN nodes : k[1] = node.id /\ Range(node.labels) \subseteq k[2]}
    IN  IF hit = {}
        THEN nodes @@ (<<node.id, Range(node.labels)>> :> node.properties)
        ELSE nodes @@ (<<node.id, Range(node.labels) \cup {"twin " \o IntStr(Cardinality(hit))}>>
                       :> node.properties)

\* "MERGE (n:labels {id: $id}) SET n += $properties": every node carrying the
\* labels and the id is updated; when there is none, one is created
MergeNode(nodes, node) ==
    LET hit == {k \in DOMAIN nodes : k[1] = node.id /\ Range(node.labels) \subseteq k[2]}
    IN  IF hit = {}
        THEN nodes @@ (<<node.id, Range(node.labels)>> :> node.properties)
        ELSE [k \in DOMAIN nodes |->
                IF k \in hit THEN node.properties @@ nodes[k] ELSE nodes[k]]

\* "MATCH (a {id: $source_id}) MATCH (b {id: $target_id}) MERGE (a)-[r:type]->(b)
\* SET r += $properties": nothing is written when an end is missing
MergeRel(nodes, rels, rel) ==
    LET as == {k \in DOMAIN nodes : k[1] = rel.source_id}
        bs == {k \in DOMAIN nodes : k[1] = rel.target_id}
        keys == {<<a, rel.type, b>> : a \in as, b \in bs}
    IN  [k \in DOMAIN rels \cup keys |->
            IF k \notin keys THEN rels[k]
            ELSE IF k \in DOMAIN rels THEN rel.properties @@ rels[k]
            ELSE rel.properties]

\* ------------------------------------------------- the temporal sequencer
\* datetime.fromisoformat on the timestamps of the input domain: seconds, or -1
\* when it raises
ParseIso(ts) ==
    CASE ts = T10 -> 10
      [] ts = T25 -> 25
      [] OTHER -> -1

\* load_request, "Calculate time delta": 0 unless both are present and parse
TimeDelta(current_timestamp, prev_timestamp) ==
    IF current_timestamp # "" /\ prev_timestamp # ""
       /\ ParseIso(current_timestamp) # -1 /\ ParseIso(prev_timestamp) # -1
    THEN ParseIso(current_timestamp) - ParseIso(prev_timestamp)
    ELSE 0

\* load_request, "Find User node and Request node": the last node of each kind,
\* id NoVal when there is none
LastWith(nodes, label, without) ==
    LET idx == {i \in 1..Len(nodes) : label \in Range(nodes[i].labels)
                                      /\ without \notin Range(nodes[i].labels)}
    IN  IF idx = {} THEN Node(NoVal, <<>>, <<>>) ELSE nodes[CHOOSE i \in idx : \A j \in idx : j <= i]

RequestNodeOf(g) == LastWith(g.nodes, "Request", NoVal)
UserNodeOf(g) == LastWith(g.nodes, "User", "Request")

\* the key of user_last_request: user_node['properties'].get('user_id')
TableKey(g) == UserNodeOf(g).properties.user_id

FollowsRel(prev, g) ==
    Rel(prev[1], RequestNodeOf(g).id, "FOLLOWS",
        [time_delta |-> TimeDelta(RequestNodeOf(g).properties.timestamp, prev[2]),
         request_sequence |-> "next"])

\* ------------------------------------------------------------- the state
NoFrame == [call |-> 0, i |-> 0, prev |-> <<>>, nodes_created |-> 0, relationships_created |-> 0]

\* load_requests: "stats = {...}" for a list of n requests
NewStats(n) ==
    [total_requests |-> n, loaded_count |-> 0, failed_count |-> 0,
     total_nodes |-> 0, total_relationships |-> 0, errors |-> <<>>]

NoBatch == [requests |-> <<>>, idx |-> 0, status |-> "none", stats |-> NewStats(0)]

\* the loader and its parser right after construction, the store empty
LoaderInit ==
    /\ store_nodes = <<>>
    /\ store_rels = <<>>
    /\ user_last_request = <<>>
    /\ pc = [t \in Threads |-> "idle"]
    /\ frame = [t \in Threads |-> NoFrame]
    /\ calls = <<>>
    /\ failures = 0
    /\ batch = NoBatch
    /\ endpoint_node = Node(NoVal, <<>>, <<>>)

\* GeminiClient before a batch was converted
NoData == [stage |-> "none", nodes |-> <<>>]

\* GraphBuilder.__init__, and no process_message call running
NoCall == [pc |-> "idle", msg |-> <<>>, ops |-> <<>>, i |-> 0, generated |-> 0]

BuilderInit ==
    /\ endpoint_cache = <<>>
    /\ builder = NoCall
    /\ processed = <<>>

\* BatchProcessor.__init__ for a batch size, with the history the claims speak of:
\* the messages in the order they were appended, the add_message and flush calls
\* made and the add_message calls completed, and the call that held the lock last
NewProcessor(batch_size) ==
    [batch_size |-> batch_size, current_batch |-> <<>>, message_count |-> 0, lock |-> "free",
     arrivals |-> <<>>, adds |-> 0, flushes |-> 0, completed |-> 0, last |-> "none"]

NoWork == [pc |-> "idle", op |-> "none", message |-> 0, batch_to_process |-> <<>>]

ProcessorInit(batch_size) ==
    /\ processor = NewProcessor(batch_size)
    /\ worker = [t \in Threads |-> NoWork]
    /\ dispatched = <<>>

PipelineInit ==
    /\ data = NoData
    /\ BuilderInit
    /\ ProcessorInit(1)

Init ==
    /\ LoaderInit
    /\ rules = EndpointPatterns
    /\ PipelineInit

\* graph_data = self.parser.parse_request(http_request), kept with the call
Draft(t) == calls[frame[t].call].graph_data

\* mutant: the first failure ends the loop of load_requests
RecordedThenStops(status, fr) ==
    IF batch.status # "running" THEN batch
    ELSE IF status = "ok"
    THEN [batch EXCEPT !.idx = @ + 1,
                       !.stats.loaded_count = @ + 1,
                       !.stats.total_nodes = @ + fr.nodes_created,
                       !.stats.total_relationships = @ + fr.relationships_created]
    ELSE [batch EXCEPT !.idx = Len(batch.requests) + 1,
                       !.stats.failed_count = @ + 1,
                       !.stats.errors = Append(@, "Failed to load request " \o IntStr(batch.idx))]

\* load_requests, the body of its loop after load_request returned (status "ok")
\* or raised: the stats of the running batch, which then turns to the next request
Recorded(status, fr) ==
    IF batch.status # "running" THEN batch
    ELSE IF status = "ok"
    THEN [batch EXCEPT !.idx = @ + 1,
                       !.stats.loaded_count = @ + 1,
                       !.stats.total_nodes = @ + fr.nodes_created,
                       !.stats.total_relationships = @ + fr.relationships_created]
    ELSE [batch EXCEPT !.idx = @ + 1,
                       !.stats.failed_count = @ + 1,
                       !.stats.errors = Append(@, "Failed to load request " \o IntStr(batch.idx))]

\* load_request returns or raises: the thread is free again; a call that raised
\* keeps the place it raised at
Finish(t, status, fr) ==
    /\ pc' = [pc EXCEPT ![t] = "idle"]
    /\ frame' = [frame EXCEPT ![t] = NoFrame]
    /\ calls' = [calls EXCEPT ![fr.call] =
                    [@ EXCEPT !.status = status, !.seen = Len(calls),
                              !.failed = IF status = "raised" THEN pc[t] ELSE "",
                              !.nodes_created = fr.nodes_created,
                              !.relationships_created = fr.relationships_created]]
    /\ batch' = Recorded(status, fr)

\* a load_request call as it is entered: nothing created
NewCall(req) ==
    [req |-> req, graph_data |-> NoGraph, status |-> "running", seen |-> 0, failed |-> "",
     nodes_created |-> 0, relationships_created |-> 0]

\* load_request is called: parse_request builds the draft graph, or raises and
\* load_request raises with it before any store call
\* mutant: the Request node is written before parse_request has finished
EnterPersistsFirst(t, call, limit) ==
    /\ pc[t] = "idle"
    /\ Len(calls) < limit
    /\ store_nodes' = MergeNode(store_nodes, CreateRequestNode(call.req))
    /\ IF ParseRaises(call.req)
       THEN /\ calls' = Append(calls, [call EXCEPT !.status = "raised",
                                                   !.failed = "parse",
                                                   !.seen = Len(calls) + 1])
            /\ batch' = Recorded("raised", NoFrame)
            /\ UNCHANGED <<pc, frame>>
       ELSE /\ calls' = Append(calls, [call EXCEPT !.graph_data = ParseRequest(call.req)])
            /\ frame' = [frame EXCEPT ![t] = [NoFrame EXCEPT !.call = Len(calls) + 1, !.i = 1]]
            /\ pc' = [pc EXCEPT ![t] = "nodes"]
            /\ UNCHANGED batch
    /\ UNCHANGED <<store_rels, user_last_request, failures, rules, endpoint_node, pipeline_vars>>

Enter(t, call, limit) ==
    /\ pc[t] = "idle"
    /\ Len(calls) < limit
    /\ IF ParseRaises(call.req)
       THEN /\ calls' = Append(calls, [call EXCEPT !.status = "raised",
                                                   !.failed = "parse",
                                                   !.seen = Len(calls) + 1])
            /\ batch' = Recorded("raised", NoFrame)
            /\ UNCHANGED <<pc, frame>>
       ELSE /\ calls' = Append(calls, [call EXCEPT !.graph_data = ParseRequest(call.req)])
            /\ frame' = [frame EXCEPT ![t] = [NoFrame EXCEPT !.call = Len(calls) + 1, !.i = 1]]
            /\ pc' = [pc EXCEPT ![t] = "nodes"]
            /\ UNCHANGED batch
    /\ UNCHANGED <<store_nodes, store_rels, user_last_request, failures, rules, endpoint_node, pipeline_vars>>

Start(t, req, limit) == Enter(t, NewCall(req), limit)

\* analyze: HTTPParser.parse_request, then load_request; a ValueError of the
\* request line ends the handler (answered 500) before load_request is called
Analyze(t, raw, limit) ==
    IF RequestLineRaises(raw)
    THEN /\ pc[t] = "idle"
         /\ Len(calls) < limit
         /\ calls' = Append(calls, [NewCall(NoRequest) EXCEPT !.status = "raised",
                                                              !.failed = "request_line",
                                                              !.seen = Len(calls) + 1]
                                   @@ [raw |-> raw])
         /\ UNCHANGED <<store_nodes, store_rels, user_last_request, pc, frame, failures,
                        batch, rules, endpoint_node, pipeline_vars>>
    ELSE Enter(t, NewCall(HttpRequestOf(raw)) @@ [raw |-> raw], limit)

\* one turn of "for node in graph_data['nodes']: self._create_node(node)"
CreateNode(t) ==
    /\ pc[t] = "nodes"
    /\ store_nodes' = MergeNode(store_nodes, Draft(t).nodes[frame[t].i])
    /\ frame' = [frame EXCEPT ![t] =
                    [@ EXCEPT !.nodes_created = @ + 1,
                              !.i = IF @ = Len(Draft(t).nodes) THEN 1 ELSE @ + 1]]
    /\ pc' = [pc EXCEPT ![t] = IF frame[t].i = Len(Draft(t).nodes) THEN "rels" ELSE "nodes"]
    /\ UNCHANGED <<store_rels, user_last_request, calls, failures, batch, rules, endpoint_node, pipeline_vars>>

\* one turn of "for rel in graph_data['relationships']: self._create_relationship(rel)";
\* after the last one the User and Request nodes are looked up
CreateRelationship(t) ==
    /\ pc[t] = "rels"
    /\ store_rels' = MergeRel(store_nodes, store_rels, Draft(t).rels[frame[t].i])
    /\ LET fr == [frame[t] EXCEPT !.relationships_created = @ + 1, !.i = @ + 1]
       IN  IF frame[t].i < Len(Draft(t).rels)
           THEN /\ frame' = [frame EXCEPT ![t] = fr]
                /\ UNCHANGED <<pc, calls, batch>>
           ELSE IF UserNodeOf(Draft(t)).id # NoVal /\ RequestNodeOf(Draft(t)).id # NoVal
           THEN /\ frame' = [frame EXCEPT ![t] = fr]
                /\ pc' = [pc EXCEPT ![t] = "seq_read"]
                /\ UNCHANGED <<calls, batch>>
           ELSE Finish(t, "ok", fr)
    /\ UNCHANGED <<store_nodes, user_last_request, failures, rules, endpoint_node, pipeline_vars>>

\* "if user_id and user_id in self.user_last_request: prev_request_id, prev_timestamp = ..."
ReadLast(t) ==
    /\ pc[t] = "seq_read"
    /\ IF Found(TableKey(Draft(t))) /\ TableKey(Draft(t)) \in DOMAIN user_last_request
       THEN /\ frame' = [frame EXCEPT ![t].prev = user_last_request[TableKey(Draft(t))]]
            /\ pc' = [pc EXCEPT ![t] = "follows"]
            /\ UNCHANGED <<calls, batch>>
       ELSE IF Found(TableKey(Draft(t)))
       THEN /\ pc' = [pc EXCEPT ![t] = "seq_write"]
            /\ UNCHANGED <<frame, calls, batch>>
       ELSE Finish(t, "ok", frame[t])
    /\ UNCHANGED <<store_nodes, store_rels, user_last_request, failures, rules, endpoint_node, pipeline_vars>>

\* "self._create_relationship(follows_rel)"
CreateFollows(t) ==
    /\ pc[t] = "follows"
    /\ store_rels' = MergeRel(store_nodes, store_rels, FollowsRel(frame[t].prev, Draft(t)))
    /\ frame' = [frame EXCEPT ![t].relationships_created = @ + 1]
    /\ pc' = [pc EXCEPT ![t] = "seq_write"]
    /\ UNCHANGED <<store_nodes, user_last_request, calls, failures, batch, rules, endpoint_node, pipeline_vars>>

\* "self.user_last_request[user_id] = (request_node['id'], current_timestamp)", return
UpdateLast(t) ==
    /\ pc[t] = "seq_write"
    /\ user_last_request' =
           (TableKey(Draft(t)) :> <<RequestNodeOf(Draft(t)).id,
                                    RequestNodeOf(Draft(t)).properties.timestamp>>)
           @@ user_last_request
    /\ Finish(t, "ok", frame[t])
    /\ UNCHANGED <<store_nodes, store_rels, failures, rules, endpoint_node, pipeline_vars>>

\* mutant: _create_node logs the store error and does not re-raise it
StoreFailsSwallowed(t) ==
    /\ pc[t] \in {"nodes", "rels", "follows"}
    /\ failures < MaxFailures
    /\ failures' = failures + 1
    /\ IF pc[t] = "nodes"
       THEN /\ calls' = [calls EXCEPT ![frame[t].call].failed = "nodes"]
            /\ frame' = [frame EXCEPT ![t].i = IF @ = Len(Draft(t).nodes) THEN 1 ELSE @ + 1]
            /\ pc' = [pc EXCEPT ![t] = IF frame[t].i = Len(Draft(t).nodes) THEN "rels" ELSE "nodes"]
            /\ UNCHANGED batch
       ELSE Finish(t, "raised", frame[t])
    /\ UNCHANGED <<store_nodes, store_rels, user_last_request, rules, endpoint_node, pipeline_vars>>

\* neo4j_client.execute_query raises inside _create_node / _create_relationship:
\* the exception is logged, re-raised and leaves load_request
StoreFails(t) ==
    /\ pc[t] \in {"nodes", "rels", "follows"}
    /\ failures < MaxFailures
    /\ failures' = failures + 1
    /\ Finish(t, "raised", frame[t])
    /\ UNCHANGED <<store_nodes, store_rels, user_last_request, rules, endpoint_node, pipeline_vars>>

Step(t, inputs, limit) ==
    \/ \E req \in inputs : Start(t, req, limit)
    \/ CreateNode(t)
    \/ CreateRelationship(t)
    \/ ReadLast(t)
    \/ CreateFollows(t)
    \/ UpdateLast(t)
    \/ StoreFails(t)

\* load_request calls made one after another (load_requests, or a serial caller)
Next == Step("t1", Requests, MaxCalls)

Spec == Init /\ [][Next]_vars

\* YAMLRuleBasedParser.parse_request is called on its own: the draft graph is
\* returned, or the error is raised, and nothing is written
ParseOnly(req, limit) ==
    /\ Len(calls) < limit
    /\ calls' = Append(calls,
                   IF ParseRaises(req)
                   THEN [NewCall(req) EXCEPT !.status = "raised", !.failed = "parse",
                                             !.seen = Len(calls) + 1]
                   ELSE [NewCall(req) EXCEPT !.status = "mapped",
                                             !.graph_data = ParseRequest(req),
                                             !.seen = Len(calls) + 1])
    /\ UNCHANGED <<store_nodes, store_rels, user_last_request, pc, frame, failures, batch,
                   rules, endpoint_node, pipeline_vars>>

\* requests that differ in where user and resource are found are mapped
MapNext == \E req \in MapRequests : ParseOnly(req, MaxMap)

MapSpec == Init /\ [][MapNext]_vars

\* longer runs of serial calls, for the requests that carry a user
ChainNext == Step("t1", UserRequests, MaxChain)

ChainSpec == Init /\ [][ChainNext]_vars

\* load_request calls made by two request threads of the server at once
ConcNext == \E t \in Threads : Step(t, BobRequests, MaxChain)

ConcSpec == Init /\ [][ConcNext]_vars

\* load_requests is called with a list of requests
LoadRequests(t, requests) ==
    /\ pc[t] = "idle"
    /\ batch.status = "none"
    /\ batch' = [requests |-> requests, idx |-> 1, status |-> "running",
                 stats |-> NewStats(Len(requests))]
    /\ UNCHANGED <<store_nodes, store_rels, user_last_request, pc, frame, calls, failures,
                   rules, endpoint_node, pipeline_vars>>

\* "for idx, request in enumerate(requests, 1): ... self.load_request(request)"
NextRequest(t) ==
    /\ batch.status = "running"
    /\ batch.idx <= Len(batch.requests)
    /\ Start(t, batch.requests[batch.idx], Len(batch.requests))

\* the loop is over: "return stats"
ReturnStats(t) ==
    /\ batch.status = "running"
    /\ pc[t] = "idle"
    /\ batch.idx > Len(batch.requests)
    /\ batch' = [batch EXCEPT !.status = "done"]
    /\ UNCHANGED <<store_nodes, store_rels, user_last_request, pc, frame, calls, failures,
                   rules, endpoint_node, pipeline_vars>>

\* the lists of at most MaxBatch requests
BatchLists == UNION {[1..n -> BatchRequests] : n \in 0..MaxBatch}

\* one load_requests call
BatchNext ==
    \/ \E requests \in BatchLists : LoadRequests("t1", requests)
    \/ NextRequest("t1")
    \/ CreateNode("t1")
    \/ CreateRelationship("t1")
    \/ ReadLast("t1")
    \/ CreateFollows("t1")
    \/ UpdateLast("t1")
    \/ StoreFails("t1")
    \/ ReturnStats("t1")

BatchSpec == Init /\ [][BatchNext]_vars

\* the lists of at most MaxRules endpoint patterns, in any order and with repeats
RuleLists == UNION {[1..n -> Range(EndpointPatterns)] : n \in 0..MaxRules}

\* the requests whose endpoint is classified
EndpointRequests == {Alice, BobAt10, DeepPost}

\* reload_rules: the rules file is read again and may have changed
ReloadRules(patterns) ==
    /\ rules' = patterns
    /\ endpoint_node' = Node(NoVal, <<>>, <<>>)
    /\ UNCHANGED <<store_nodes, store_rels, user_last_request, pc, frame, calls, failures,
                   batch, pipeline_vars>>

\* _create_endpoint_node for a request, under the rules that are loaded
CreateEndpoint(req) ==
    /\ endpoint_node' = CreateEndpointNodeUnder(rules, req)
    /\ UNCHANGED <<store_nodes, store_rels, user_last_request, pc, frame, calls, failures,
                   batch, rules, pipeline_vars>>

RuleInit ==
    /\ LoaderInit
    /\ rules \in RuleLists
    /\ PipelineInit

RuleNext ==
    \/ \E patterns \in RuleLists : ReloadRules(patterns)
    \/ \E req \in EndpointRequests : CreateEndpoint(req)

\* the endpoint classifier under every rule list
RuleSpec == RuleInit /\ [][RuleNext]_vars

\* analyze calls made one after another on raw requests
AnalyzeNext ==
    \/ \E raw \in RawRequests : Analyze("t1", raw, MaxAnalyze)
    \/ CreateNode("t1")
    \/ CreateRelationship("t1")
    \/ ReadLast("t1")
    \/ CreateFollows("t1")
    \/ UpdateLast("t1")
    \/ StoreFails("t1")

AnalyzeSpec == Init /\ [][AnalyzeNext]_vars

\* ------------------------------------------------- the LLM converter path
\* A node of the converter's answer is a Python dict: a function from its keys.
Has(d, key) == key \in DOMAIN d
Put(d, key, v) == [k \in DOMAIN d \cup {key} |-> IF k = key THEN v ELSE d[k]]
Del(d, key) == [k \in DOMAIN d \ {key} |-> d[k]]

\* str(uuid.uuid4()): the n-th identifier generated; no two are equal
Uuid(n) == "uuid-" \o IntStr(n)

\* auth_header.startswith('Bearer ') and auth_header[7:].strip(), and
\* "token in cookie_header", on the header values of the input domain
BearerTable == { <<"Bearer tok1", "tok1">> }
CookieTable == { <<"tok1", "sid=tok1">> }

\* "if 'x_index' in node: idx = node['x_index']; if 0 <= idx < len(ids):
\*  node['x_id'] = ids[idx]; del node['x_index']"
ConvertIndex(node, index_key, id_key, ids) ==
    IF ~Has(node, index_key) THEN node
    ELSE Del(IF 0 <= node[index_key] /\ node[index_key] < Len(ids)
             THEN Put(node, id_key, ids[node[index_key] + 1])
             ELSE node,
             index_key)

\* _add_uuids: ids in the order endpoints, requests, responses, sessions, resources,
\* parameters; index references of requests, responses and parameters converted
AddUuids(nodes) ==
    LET e == Len(nodes.endpoints)
        r == e + Len(nodes.requests)
        p == r + Len(nodes.responses)
        q == p + Len(nodes.sessions)
        u == q + Len(nodes.resources)
        endpoint_ids == [i \in 1..Len(nodes.endpoints) |-> Uuid(i)]
        request_ids == [i \in 1..Len(nodes.requests) |-> Uuid(e + i)]
    IN  [endpoints |-> [i \in 1..Len(nodes.endpoints) |->
                          Put(nodes.endpoints[i], "id", endpoint_ids[i])],
         requests |-> [i \in 1..Len(nodes.requests) |->
                          ConvertIndex(Put(nodes.requests[i], "id", request_ids[i]),
                                       "endpoint_index", "endpoint_id", endpoint_ids)],
         responses |-> [i \in 1..Len(nodes.responses) |->
                          ConvertIndex(Put(nodes.responses[i], "id", Uuid(r + i)),
                                       "request_index", "request_id", request_ids)],
         sessions |-> [i \in 1..Len(nodes.sessions) |->
                          Put(nodes.sessions[i], "id", Uuid(p + i))],
         resources |-> [i \in 1..Len(nodes.resources) |->
                          Put(nodes.resources[i], "id", Uuid(q + i))],
         parameters |-> [i \in 1..Len(nodes.parameters) |->
                          ConvertIndex(Put(nodes.parameters[i], "id", Uuid(u + i)),
                                       "request_index", "request_id", request_ids)]]

\* _link_resources_to_sessions: token_to_session as a set of <<token, session id>>;
\* a later session with the same token replaces an earlier one
TokenToSession(sessions) ==
    {<<sessions[i].token, sessions[i].id>> :
        i \in {j \in 1..Len(sessions) :
                  /\ Has(sessions[j], "token") /\ Has(sessions[j], "id")
                  /\ \A k \in (j + 1)..Len(sessions) :
                         ~(Has(sessions[k], "token") /\ Has(sessions[k], "id")
                           /\ sessions[k].token = sessions[j].token)}}

\* the session of a request: by the Bearer token, else by a token in the cookie
SessionOfRequest(request, tokens) ==
    LET headers == IF Has(request, "headers") THEN request.headers ELSE <<>>
        auth == IF Has(headers, "Authorization") THEN headers.Authorization ELSE ""
        cookie == IF Has(headers, "Cookie") THEN headers.Cookie ELSE ""
        bearer == {e \in BearerTable : e[1] = auth /\ \E t \in tokens : t[1] = e[2]}
        in_cookie == {t \in tokens : <<t[1], cookie>> \in CookieTable}
    IN  IF bearer # {}
        THEN (CHOOSE t \in tokens : \E e \in bearer : t[1] = e[2])[2]
        ELSE IF in_cookie # {} THEN (CHOOSE t \in in_cookie : TRUE)[2]
        ELSE NoVal

LinkResource(resource, requests, tokens) ==
    IF Has(resource, "session_token")
    THEN Del(IF \E t \in tokens : t[1] = resource.session_token
             THEN Put(resource, "session_id",
                      (CHOOSE t \in tokens : t[1] = resource.session_token)[2])
             ELSE resource,
             "session_token")
    ELSE IF Has(resource, "request_id")
            /\ \E i \in 1..Len(requests) :
                   /\ requests[i].id = resource.request_id
                   /\ SessionOfRequest(requests[i], tokens) # NoVal
    THEN Put(resource, "session_id",
             SessionOfRequest(requests[CHOOSE i \in 1..Len(requests) :
                                          requests[i].id = resource.request_id], tokens))
    ELSE resource

LinkResourcesToSessions(nodes) ==
    [nodes EXCEPT !.resources =
        [i \in 1..Len(nodes.resources) |->
            LinkResource(nodes.resources[i], nodes.requests, TokenToSession(nodes.sessions))]]

\* The answers of the model that a behaviour of ConvertSpec draws from: JSON of the
\* shape the conversion prompt asks for, with array positions from 0 to MaxRef.
WithRefs(node, key) == {node} \cup {Put(node, key, ref) : ref \in 0..MaxRef}

AnswerRequests ==
    {<<>>} \cup
    UNION {{<< request >> : request \in WithRefs([headers |-> h], "endpoint_index")} :
           h \in {<<>>, [Authorization |-> "Bearer tok1"], [Cookie |-> "sid=tok1"]}}
AnswerResponses == {<< response >> : response \in WithRefs([statusCode |-> 200], "request_index")}
AnswerSessions == {<<>>, << [token |-> "tok1"] >>}
AnswerResources ==
    {<< resource >> :
        resource \in WithRefs([type |-> "user", data_id |-> 1], "request_index")
                     \cup WithRefs([type |-> "user", data_id |-> 1, session_token |-> "tok1"],
                                   "request_index")}
AnswerParameters ==
    {<< parameter >> :
        parameter \in WithRefs([type |-> "path", key |-> "id", value |-> "1"], "request_index")}

Answers ==
    [endpoints : {<< [path |-> "/users/1", method |-> "GET"] >>},
     requests : AnswerRequests, responses : AnswerResponses, sessions : AnswerSessions,
     resources : AnswerResources, parameters : AnswerParameters]

\* convert_batch_to_graph_data from "result = json.loads(...)" on:
\* _add_uuids, then _link_resources_to_sessions, and the result is returned
ConvertBatch ==
    /\ data.stage = "answer"
    /\ data' = [stage |-> "converted", nodes |-> LinkResourcesToSessions(AddUuids(data.nodes))]
    /\ UNCHANGED <<store_nodes, store_rels, user_last_request, pc, frame, calls, failures,
                   batch, rules, endpoint_node, endpoint_cache, builder, processed,
                   processor_vars>>

ConvertInit ==
    /\ LoaderInit
    /\ rules = EndpointPatterns
    /\ data \in [stage : {"answer"}, nodes : Answers]
    /\ BuilderInit
    /\ ProcessorInit(1)

ConvertNext == ConvertBatch

ConvertSpec == ConvertInit /\ [][ConvertNext]_vars

\* ----------------------------------------------------- the graph builder
\* Characters of a str: the i-th character, and the classes of the regexes
Char(str, i) == SubSeq(str, i, i)
Digits == {"0", "1", "2", "3", "4", "5", "6", "7", "8", "9"}
HexDigits == Digits \cup {"a", "b", "c", "d", "e", "f", "A", "B", "C", "D", "E", "F"}

\* the lengths of the five groups of "[0-9a-f]{8}-[0-9a-f]{4}-[0-9a-f]{4}-[0-9a-f]{4}-
\* [0-9a-f]{12}" and the positions of its hyphens
UuidLen == 36
UuidHyphens == {9, 14, 19, 24}

\* the UUID regex (re.IGNORECASE) matches str from position i on
UuidAt(str, i) ==
    /\ i + UuidLen - 1 <= Len(str)
    /\ \A k \in 1..UuidLen :
           IF k \in UuidHyphens THEN Char(str, i + k - 1) = "-"
           ELSE Char(str, i + k - 1) \in HexDigits

\* the end of the run of digits that starts at position i
RECURSIVE DigitsEnd(_, _)
DigitsEnd(str, i) ==
    IF i < Len(str) /\ Char(str, i + 1) \in Digits THEN DigitsEnd(str, i + 1) ELSE i

\* re.sub(r'/\d+', '/{id}', path) from position i on
RECURSIVE SubNumeric(_, _)
SubNumeric(str, i) ==
    IF i > Len(str) THEN ""
    ELSE IF Char(str, i) = "/" /\ i < Len(str) /\ Char(str, i + 1) \in Digits
    THEN "/{id}" \o SubNumeric(str, DigitsEnd(str, i + 1) + 1)
    ELSE Char(str, i) \o SubNumeric(str, i + 1)

\* re.sub(r'/<uuid>', '/{id}', pattern, flags=re.IGNORECASE) from position i on
RECURSIVE SubUuid(_, _)
SubUuid(str, i) ==
    IF i > Len(str) THEN ""
    ELSE IF Char(str, i) = "/" /\ UuidAt(str, i + 1)
    THEN "/{id}" \o SubUuid(str, i + UuidLen + 1)
    ELSE Char(str, i) \o SubUuid(str, i + 1)

\* HTTPMessage.endpoint_pattern of a path
EndpointPattern(path) == SubUuid(SubNumeric(path, 1), 1)

\* f"..._{uuid4().hex[:8]}": the n-th identifier generated; no two are equal
UuidHex(n) == IntStr(n \div 10) \o IntStr(n % 10)

\* An HTTPMessage of the input domain: method and path of the request, its
\* Authorization header, its JSON body as <<key, value>> pairs, and the response:
\* "empty" (no JSON body), "details" ({"id": 1, "username": ...}) or
\* "login" ({"token": ..., "user": {"id": 1, "username": ...}})
Msg(method, path, auth, body, response) ==
    [method |-> method, path |-> path, auth |-> auth, body |-> body, response |-> response]

UuidPath == "/users/abcdef12-3456-7890-abcd-ef1234567890"
DigitUuidPath == "/users/12345678-3456-7890-abcd-ef1234567890"

BuilderMessages ==
    { Msg("GET", "/users/42", "", <<>>, "empty"),
      Msg("GET", "/users/7", "Bearer tok1", <<>>, "details"),
      Msg("POST", "/login", "", << <<"username", "alice">> >>, "login"),
      Msg("GET", "/login", "", <<>>, "empty"),
      Msg("GET", UuidPath, "", <<>>, "empty"),
      Msg("GET", DigitUuidPath, "", <<>>, "empty"),
      Msg("GET", "/2fa/setup", "", <<>>, "empty"),
      Msg("GET", "/users/42/orders/7", "", <<>>, "empty") }

\* HTTPParser.extract_path_params on the paths of the input domain and their
\* patterns: the groupdict as <<key, value>> pairs; a path that is not listed has
\* none; re.match raises re.error for a pattern that names the group id twice
PathParamTable ==
    { <<"/users/42", << <<"id", "42">> >> >>,
      <<"/users/7", << <<"id", "7">> >> >>,
      <<UuidPath, << <<"id", "abcdef12-3456-7890-abcd-ef1234567890">> >> >>,
      <<DigitUuidPath, << <<"id", "12345678">> >> >>,
      <<"/2fa/setup", << <<"id", "2">> >> >> }
PathParamRaises == {"/users/42/orders/7"}

ExtractPathParams(path) ==
    IF \E e \in PathParamTable : e[1] = path
    THEN (CHOOSE e \in PathParamTable : e[1] = path)[2]
    ELSE <<>>

\* _extract_session: the token and the user id of the session, NoVal for None;
\* the tokens of the input domain are no JWTs, _decode_jwt_payload returns None
SessionToken(msg) ==
    IF msg.response = "login" THEN "tok2"
    ELSE IF \E e \in BearerTable : e[1] = msg.auth
    THEN (CHOOSE e \in BearerTable : e[1] = msg.auth)[2]
    ELSE NoVal

SessionUser(msg) == IF msg.response = "login" THEN "1" ELSE NoVal

HasSession(msg) == SessionToken(msg) # NoVal \/ SessionUser(msg) # NoVal

\* _extract_resources: the resources of the response body as <<type, data id>>
MessageResources(msg) ==
    CASE msg.response = "details" -> << <<"user_details", "1">> >>
      [] msg.response = "login" -> << <<"user", "1">> >>
      [] OTHER -> <<>>

\* the store calls of the graph builder
NodeOp(label, id, properties) ==
    [kind |-> "node", label |-> label, id |-> id, properties |-> properties]
RelOp(from_id, to_id, from_label, to_label, type) ==
    [kind |-> "rel", from_id |-> from_id, to_id |-> to_id, from_label |-> from_label,
     to_label |-> to_label, type |-> type]
RaiseOp == [kind |-> "raise"]

\* _create_parameter_node for the parameters from number k on; n ids were generated
RECURSIVE ParameterOps(_, _, _, _, _)
ParameterOps(params, k, type, request_id, n) ==
    IF k > Len(params) THEN <<>>
    ELSE << NodeOp("Parameter", "param_" \o UuidHex(n + k),
                   [type |-> type, key |-> params[k][1], value |-> params[k][2]]),
            RelOp("param_" \o UuidHex(n + k), request_id, "Parameter", "Request",
                  "OF_REQUEST") >>
         \o ParameterOps(params, k + 1, type, request_id, n)

\* process_message from step 2 on, as the store calls it makes in their order;
\* n ids were generated before
MessageOps(msg, endpoint_id, n) ==
    LET request_id == "request_" \o UuidHex(n + 1)
        response_id == "response_" \o UuidHex(n + 2)
        path_params == ExtractPathParams(msg.path)
        p == n + 2 + Len(path_params)
        q == p + Len(msg.body)
        session_id == "session_" \o UuidHex(q + 1)
        u == IF HasSession(msg) THEN q + 1 ELSE q
        resources == MessageResources(msg)
    IN  << NodeOp("Request", request_id, [body |-> msg.body, auth |-> msg.auth]),
           RelOp(request_id, endpoint_id, "Request", "Endpoint", "TARGETS"),
           NodeOp("Response", response_id, [body |-> msg.response]),
           RelOp(response_id, request_id, "Response", "Request", "FOR_REQUEST") >>
        \o (IF msg.path \in PathParamRaises THEN << RaiseOp >>
            ELSE ParameterOps(path_params, 1, "path", request_id, n + 2)
                 \o ParameterOps(msg.body, 1, "body", request_id, p)
                 \o (IF HasSession(msg)
                     THEN << NodeOp("UserSession", session_id,
                                    [user_id |-> SessionUser(msg),
                                     token |-> SessionToken(msg)]) >>
                     ELSE <<>>)
                 \o Concat([k \in 1..Len(resources) |->
                       << NodeOp("Resource", "resource_" \o UuidHex(u + k),
                                 [type |-> resources[k][1], data_id |-> resources[k][2]]) >>
                       \o (IF HasSession(msg) /\ SessionUser(msg) = resources[k][2]
                           THEN << RelOp(session_id, "resource_" \o UuidHex(u + k),
                                         "UserSession", "Resource", "BELONGS_TO") >>
                           ELSE <<>>)]))

\* the number of ids that the store calls of a message use
IdsOf(ops) == Cardinality({ops[k].id : k \in {j \in 1..Len(ops) : ops[j].kind = "node"}})

\* Neo4jClient.create_relationship: "MATCH (a:from_label {id}), (b:to_label {id})
\* MERGE (a)-[:type]->(b)"
ClientCreateRelationship(nodes, rels, op) ==
    LET as == {k \in DOMAIN nodes : k[1] = op.from_id /\ op.from_label \in k[2]}
        bs == {k \in DOMAIN nodes : k[1] = op.to_id /\ op.to_label \in k[2]}
        keys == {<<a, op.type, b>> : a \in as, b \in bs}
    IN  [k \in DOMAIN rels \cup keys |-> IF k \in DOMAIN rels THEN rels[k] ELSE <<>>]

\* mutant: the cache is keyed by the pattern alone
CacheKeyOfPattern(method, pattern) == pattern

\* cache_key = f"{method}:{pattern}"
CacheKey(method, pattern) == method \o ":" \o pattern

\* the entry of processed for a message
Processed(msg, endpoint_id, request_id, status, failed) ==
    [msg |-> msg, pattern |-> EndpointPattern(msg.path),
     key |-> CacheKey(msg.method, EndpointPattern(msg.path)),
     endpoint_id |-> endpoint_id, request_id |-> request_id, status |-> status,
     failed |-> failed]

\* the call that is running got its endpoint: the rest of process_message is set up
Proceed(msg, endpoint_id, n) ==
    [pc |-> "ops", msg |-> msg, ops |-> MessageOps(msg, endpoint_id, n), i |-> 1,
     generated |-> n + IdsOf(MessageOps(msg, endpoint_id, n))]

\* process_message is called; _get_or_create_endpoint finds the key in the cache,
\* or is about to upsert a new Endpoint node
ProcessMessage(msg, limit) ==
    LET key == CacheKey(msg.method, EndpointPattern(msg.path))
    IN  /\ builder.pc = "idle"
        /\ Len(processed) < limit
        /\ IF key \in DOMAIN endpoint_cache
           THEN /\ builder' = Proceed(msg, endpoint_cache[key], builder.generated)
                /\ processed' = Append(processed,
                       Processed(msg, endpoint_cache[key],
                                 "request_" \o UuidHex(builder.generated + 1), "running", ""))
           ELSE /\ builder' = [builder EXCEPT !.pc = "endpoint", !.msg = msg,
                                              !.generated = @ + 1]
                /\ processed' = Append(processed, Processed(msg, NoVal, NoVal, "running", ""))
        /\ UNCHANGED <<store_nodes, store_rels, user_last_request, pc, frame, calls, failures,
                       batch, rules, endpoint_node, data, endpoint_cache, processor_vars>>

\* _get_or_create_endpoint, key not cached: "self.client.create_node('Endpoint', ...);
\* self.endpoint_cache[cache_key] = endpoint.id"
GetOrCreateEndpoint ==
    LET msg == builder.msg
        pattern == EndpointPattern(msg.path)
        key == CacheKey(msg.method, pattern)
        id == "endpoint_" \o UuidHex(builder.generated)
    IN  /\ builder.pc = "endpoint"
        /\ store_nodes' = MergeNode(store_nodes,
                              Node(id, <<"Endpoint">>,
                                   [path |-> msg.path, pattern |-> pattern,
                                    method |-> msg.method]))
        /\ endpoint_cache' = (key :> id) @@ endpoint_cache
        /\ builder' = Proceed(msg, id, builder.generated)
        /\ processed' = [processed EXCEPT ![Len(processed)] =
                            [@ EXCEPT !.endpoint_id = id,
                                      !.request_id = "request_" \o UuidHex(builder.generated + 1)]]
        /\ UNCHANGED <<store_rels, user_last_request, pc, frame, calls, failures,
                       batch, rules, endpoint_node, data, processor_vars>>

\* the call that is running ends
Ended(status, failed) ==
    /\ builder' = [NoCall EXCEPT !.generated = builder.generated]
    /\ processed' = [processed EXCEPT ![Len(processed)] =
                        [@ EXCEPT !.status = status, !.failed = failed]]

\* the next store call of process_message, or the re.error of extract_path_params
StoreCall ==
    LET op == builder.ops[builder.i]
    IN  /\ builder.pc = "ops"
        /\ IF op.kind = "raise"
           THEN /\ Ended("raised", "path_params")
                /\ UNCHANGED <<store_nodes, store_rels>>
           ELSE /\ IF op.kind = "node"
                   THEN /\ store_nodes' = MergeNode(store_nodes,
                                              Node(op.id, <<op.label>>, op.properties))
                        /\ UNCHANGED store_rels
                   ELSE /\ store_rels' = ClientCreateRelationship(store_nodes, store_rels, op)
                        /\ UNCHANGED store_nodes
                /\ IF builder.i = Len(builder.ops)
                   THEN Ended("ok", "")
                   ELSE /\ builder' = [builder EXCEPT !.i = @ + 1]
                        /\ UNCHANGED processed
        /\ UNCHANGED <<user_last_request, pc, frame, calls, failures, batch, rules,
                       endpoint_node, data, endpoint_cache, processor_vars>>

\* the store raises inside create_node or create_relationship: the exception
\* leaves process_message
ClientFails ==
    /\ \/ builder.pc = "endpoint"
       \/ builder.pc = "ops" /\ builder.ops[builder.i].kind # "raise"
    /\ failures < MaxFailures
    /\ failures' = failures + 1
    /\ Ended("raised", IF builder.pc = "endpoint" THEN "endpoint" ELSE "store")
    /\ UNCHANGED <<store_nodes, store_rels, user_last_request, pc, frame, calls,
                   batch, rules, endpoint_node, data, endpoint_cache, processor_vars>>

BuilderNext ==
    \/ \E msg \in BuilderMessages : ProcessMessage(msg, MaxMessages)
    \/ GetOrCreateEndpoint
    \/ StoreCall
    \/ ClientFails

\* process_message calls made one after another on one GraphBuilder
BuilderSpec == Init /\ [][BuilderNext]_vars

\* ------------------------------------------- the HTTP parser, line by line
CRLF == "\r\n"

\* the first place at or after i where sep stands in str, 0 when there is none
RECURSIVE Find(_, _, _)
Find(str, sep, i) ==
    IF i + Len(sep) - 1 > Len(str) THEN 0
    ELSE IF SubSeq(str, i, i + Len(sep) - 1) = sep THEN i
    ELSE Find(str, sep, i + 1)

\* str.split(sep, maxsplit)
RECURSIVE Split(_, _, _)
Split(str, sep, maxsplit) ==
    LET at == Find(str, sep, 1)
    IN  IF maxsplit = 0 \/ at = 0 THEN <<str>>
        ELSE <<SubSeq(str, 1, at - 1)>>
             \o Split(SubSeq(str, at + Len(sep), Len(str)), sep, maxsplit - 1)

\* sep.join(parts)
RECURSIVE Join(_, _)
Join(sep, parts) ==
    IF parts = <<>> THEN ""
    ELSE IF Len(parts) = 1 THEN parts[1]
    ELSE parts[1] \o sep \o Join(sep, Tail(parts))

\* str.strip()
RECURSIVE Strip(_)
Strip(str) ==
    IF str = "" THEN ""
    ELSE IF Char(str, 1) \in {" ", "\t", "\r", "\n"} THEN Strip(SubSeq(str, 2, Len(str)))
    ELSE IF Char(str, Len(str)) \in {" ", "\t", "\r", "\n"}
    THEN Strip(SubSeq(str, 1, Len(str) - 1))
    ELSE str

\* "headers[key.strip()] = value.strip()"
DictSet(d, key, value) ==
    IF \E i \in 1..Len(d) : d[i][1] = key
    THEN [i \in 1..Len(d) |-> IF d[i][1] = key THEN <<key, value>> ELSE d[i]]
    ELSE Append(d, <<key, value>>)

\* "for i, line in enumerate(lines[1:], 1)": the turns from line i on (the lines
\* are counted from 0 as in the code); gives the headers and body_start
RECURSIVE HeaderLoop(_, _, _)
HeaderLoop(lines, i, headers) ==
    IF i >= Len(lines) THEN [headers |-> headers, body_start |-> 0]
    ELSE LET line == lines[i + 1]
         IN  IF line = "" THEN [headers |-> headers, body_start |-> i + 1]
             ELSE IF Find(line, ":", 1) # 0
             THEN HeaderLoop(lines, i + 1,
                             DictSet(headers, Strip(Split(line, ":", 1)[1]),
                                     Strip(Split(line, ":", 1)[2])))
             ELSE HeaderLoop(lines, i + 1, headers)

\* "'\r\n'.join(lines[body_start:]) if body_start < len(lines) else ''"
BodyRaw(lines, body_start) ==
    IF body_start < Len(lines) THEN Join(CRLF, SubSeq(lines, body_start + 1, Len(lines)))
    ELSE ""

\* HTTPParser.parse_request up to the call of _parse_body: the request line cut
\* at its blanks, the headers, and the text handed to _parse_body
RawOfText(raw) ==
    LET lines == Split(raw, CRLF, Len(raw))
        loop == HeaderLoop(lines, 1, <<>>)
    IN  RawReq(Split(lines[1], " ", Len(lines[1])), loop.headers,
               BodyRaw(lines, loop.body_start), "")

\* The raw texts a behaviour of ParserSpec draws from: a request line, header
\* lines, and what follows them
StartLines == {"GET /login HTTP/1.1", "POST /login HTTP/1.1", "GET /login"}
HeaderBlocks == {"", CRLF \o "Host: h1",
                 CRLF \o "Host: h1" \o CRLF \o "Content-Type: application/json"}
Endings == {"", CRLF, CRLF \o CRLF, CRLF \o CRLF \o "hello", CRLF \o CRLF \o "{}",
            CRLF \o CRLF \o "a" \o CRLF \o CRLF \o "b"}
RawTexts == {start \o block \o ending :
                 start \in StartLines, block \in HeaderBlocks, ending \in Endings}

\* HTTPParser.parse_request(raw)
ParseText(raw, limit) ==
    /\ Len(calls) < limit
    /\ calls' = Append(calls,
                   IF RequestLineRaises(RawOfText(raw))
                   THEN [NewCall(NoRequest) EXCEPT !.status = "raised",
                                                   !.failed = "request_line",
                                                   !.seen = Len(calls) + 1] @@ [raw |-> raw]
                   ELSE [NewCall(HttpRequestOf(RawOfText(raw))) EXCEPT
                                                   !.status = "parsed",
                                                   !.seen = Len(calls) + 1] @@ [raw |-> raw])
    /\ UNCHANGED <<store_nodes, store_rels, user_last_request, pc, frame, failures, batch,
                   rules, endpoint_node, pipeline_vars>>

ParserNext == \E raw \in RawTexts : ParseText(raw, MaxParse)

ParserSpec == Init /\ [][ParserNext]_vars

\* --------------------------------------------------- the batch processor
loader_vars == <<store_nodes, store_rels, user_last_request, pc, frame, calls, failures,
                 batch, rules, endpoint_node>>

\* add_message is called by a request thread; the message is the number of the call
CallAddMessage(t) ==
    /\ worker[t].pc = "idle"
    /\ processor.adds < MaxAdds
    /\ processor' = [processor EXCEPT !.adds = @ + 1]
    /\ worker' = [worker EXCEPT ![t] = [NoWork EXCEPT !.pc = "acquire", !.op = "add",
                                                      !.message = processor.adds + 1]]
    /\ UNCHANGED <<loader_vars, data, endpoint_cache, builder, processed, dispatched>>

\* flush is called
CallFlush(t) ==
    /\ worker[t].pc = "idle"
    /\ processor.flushes < MaxFlushes
    /\ processor' = [processor EXCEPT !.flushes = @ + 1]
    /\ worker' = [worker EXCEPT ![t] = [NoWork EXCEPT !.pc = "acquire", !.op = "flush"]]
    /\ UNCHANGED <<loader_vars, data, endpoint_cache, builder, processed, dispatched>>

\* mutant: the lock excludes nobody
LockFreeAlways(lock) == TRUE

\* threading.Lock: acquire blocks while another thread holds the lock
LockFree(lock) == lock = "free"

\* "with self.lock:" is entered
Acquire(t) ==
    /\ worker[t].pc = "acquire"
    /\ LockFree(processor.lock)
    /\ processor' = [processor EXCEPT !.lock = t]
    /\ worker' = [worker EXCEPT ![t].pc = IF worker[t].op = "add" THEN "append" ELSE "empty"]
    /\ UNCHANGED <<loader_vars, data, endpoint_cache, builder, processed, dispatched>>

\* "self.current_batch.append(message)"
AppendMessage(t) ==
    /\ worker[t].pc = "append"
    /\ processor' = [processor EXCEPT !.current_batch = Append(@, worker[t].message),
                                      !.arrivals = Append(@, worker[t].message)]
    /\ worker' = [worker EXCEPT ![t].pc = "count"]
    /\ UNCHANGED <<loader_vars, data, endpoint_cache, builder, processed, dispatched>>

\* mutant: a batch is complete only when it is longer than batch_size
BatchCompleteLate(n, batch_size) == n > batch_size

\* "if len(self.current_batch) >= self.batch_size"
BatchComplete(n, batch_size) == n >= batch_size

\* "self.message_count += 1", and the test whether the batch is complete
CountMessage(t) ==
    /\ worker[t].pc = "count"
    /\ processor' = [processor EXCEPT !.message_count = @ + 1]
    /\ worker' = [worker EXCEPT ![t].pc =
                     IF BatchComplete(Len(processor.current_batch), processor.batch_size)
                     THEN "copy" ELSE "release"]
    /\ UNCHANGED <<loader_vars, data, endpoint_cache, builder, processed, dispatched>>

\* flush: "if not self.current_batch: return None"
TestEmpty(t) ==
    /\ worker[t].pc = "empty"
    /\ worker' = [worker EXCEPT ![t].pc =
                     IF processor.current_batch = <<>> THEN "release" ELSE "copy"]
    /\ UNCHANGED <<loader_vars, data, endpoint_cache, builder, processed, processor,
                   dispatched>>

\* "batch_to_process = self.current_batch.copy()"
CopyBatch(t) ==
    /\ worker[t].pc = "copy"
    /\ worker' = [worker EXCEPT ![t].pc = "reset",
                                ![t].batch_to_process = processor.current_batch]
    /\ UNCHANGED <<loader_vars, data, endpoint_cache, builder, processed, processor,
                   dispatched>>

\* "self.current_batch = []"
ResetBatch(t) ==
    /\ worker[t].pc = "reset"
    /\ processor' = [processor EXCEPT !.current_batch = <<>>]
    /\ worker' = [worker EXCEPT ![t].pc = "start"]
    /\ UNCHANGED <<loader_vars, data, endpoint_cache, builder, processed, dispatched>>

\* "thread = threading.Thread(target=self._process_batch_async, args=(batch_to_process,));
\* thread.start()"
StartThread(t) ==
    /\ worker[t].pc = "start"
    /\ dispatched' = Append(dispatched, [batch |-> worker[t].batch_to_process,
                                         by |-> worker[t].op, called |-> 0])
    /\ worker' = [worker EXCEPT ![t].pc = "release"]
    /\ UNCHANGED <<loader_vars, data, endpoint_cache, builder, processed, processor>>

\* the return statement leaves the with block: the lock is released
Release(t) ==
    /\ worker[t].pc = "release"
    /\ processor' = [processor EXCEPT
                        !.lock = IF @ = t THEN "free" ELSE @,
                        !.last = worker[t].op,
                        !.completed = IF worker[t].op = "add" THEN @ + 1 ELSE @]
    /\ worker' = [worker EXCEPT ![t] = NoWork]
    /\ UNCHANGED <<loader_vars, data, endpoint_cache, builder, processed, dispatched>>

\* _process_batch_async runs in its thread: "self.process_callback(batch)"
ProcessBatchAsync(k) ==
    /\ dispatched[k].called = 0
    /\ dispatched' = [dispatched EXCEPT ![k].called = @ + 1]
    /\ UNCHANGED <<loader_vars, data, endpoint_cache, builder, processed, processor, worker>>

ProcessorNext ==
    \/ \E t \in Threads : CallAddMessage(t)
    \/ \E t \in Threads : CallFlush(t)
    \/ \E t \in Threads : Acquire(t)
    \/ \E t \in Threads : AppendMessage(t)
    \/ \E t \in Threads : CountMessage(t)
    \/ \E t \in Threads : TestEmpty(t)
    \/ \E t \in Threads : CopyBatch(t)
    \/ \E t \in Threads : ResetBatch(t)
    \/ \E t \in Threads : StartThread(t)
    \/ \E t \in Threads : Release(t)
    \/ \E k \in 1..Len(dispatched) : ProcessBatchAsync(k)

ProcessorSpecInit ==
    /\ LoaderInit
    /\ rules = EndpointPatterns
    /\ data = NoData
    /\ BuilderInit
    /\ \E batch_size \in 1..MaxBatchSize : ProcessorInit(batch_size)

\* add_message and flush calls of two request threads on one BatchProcessor
ProcessorSpec == ProcessorSpecInit /\ [][ProcessorNext]_vars

\* ------------------------------------------------ vocabulary of the claims
Idle == \A t \in Threads : pc[t] = "idle"

NodesOf(label) == {k \in DOMAIN store_nodes : label \in k[2]}
RelsOf(type) == {k \in DOMAIN store_rels : k[2] = type}

\* the FOLLOWS edges of the store as <<source request id, target request id>>
FollowsPairs == {<<k[1][1], k[3][1]>> : k \in RelsOf("FOLLOWS")}

\* the user identity a request resolves to: the identifier, or the username when
\* no identifier was found
Identity(req) ==
    IF Found(ResolveUser(req).user_id) THEN <<"id", ResolveUser(req).user_id>>
    ELSE IF Found(ResolveUser(req).username) THEN <<"username", ResolveUser(req).username>>
    ELSE <<"anonymous", "">>

HasUser(req) == Identity(req)[1] # "anonymous"

AllOk == \A c \in 1..Len(calls) : calls[c].status = "ok"

\* call d was started before call c (c < d) had finished
Overlap(c, d) == calls[c].status = "running" \/ calls[c].seen >= d

Timed(req) == req.timestamp # "" /\ ParseIso(req.timestamp) # -1

\* nesting levels of a JSON value
RECURSIVE JsonLevels(_)
JsonLevels(v) ==
    IF v.kind # "dict" \/ v.items = <<>> THEN 0
    ELSE 1 + JsonLevels(v.items[CHOOSE i \in 1..Len(v.items) :
                   \A j \in 1..Len(v.items) :
                       JsonLevels(v.items[j][2]) <= JsonLevels(v.items[i][2])][2])

InstanceKinds == {"Request", "Parameter", "Header", "Body", "BodyField"}

\* ----------------------------------------------------------------- claims

\* C1: a FOLLOWS edge exists only between two requests that resolved to the same
\* non-empty user identity, and links a request only to the immediately preceding
\* ingested request of that identity, also for identities resolved by username only.
CE_C1_FollowsOnlyWithinOneIdentity ==
    \A e \in FollowsPairs :
        \E c, d \in 1..Len(calls) :
            /\ c < d
            /\ RequestId(calls[c].req) = e[1]
            /\ RequestId(calls[d].req) = e[2]
            /\ HasUser(calls[c].req)
            /\ Identity(calls[c].req) = Identity(calls[d].req)
            /\ \A m \in (c + 1)..(d - 1) :
                   ~(calls[m].status = "ok" /\ Identity(calls[m].req) = Identity(calls[c].req))

\* C2: two concurrent load_request calls of one user with timestamps T1 < T2, on a
\* loader whose table has no entry for the user, always end with exactly one
\* FOLLOWS edge, from the T1 request to the T2 request.
CE_C2_ConcurrentPairOneFollows ==
    (/\ Idle
     /\ Len(calls) = 2
     /\ AllOk
     /\ Overlap(1, 2)
     /\ HasUser(calls[1].req)
     /\ Identity(calls[1].req) = Identity(calls[2].req)
     /\ Timed(calls[1].req) /\ Timed(calls[2].req)
     /\ ParseIso(calls[1].req.timestamp) # ParseIso(calls[2].req.timestamp))
    => LET first == IF ParseIso(calls[1].req.timestamp) < ParseIso(calls[2].req.timestamp)
                    THEN 1 ELSE 2
       IN  FollowsPairs = {<<RequestId(calls[first].req), RequestId(calls[3 - first].req)>>}

\* C3: the read-emit-overwrite step of load_request is one critical section per
\* user: after an initial request, two requests of the user ingested concurrently
\* never get a FOLLOWS edge from the same predecessor and none is left without a
\* predecessor, so the user's FOLLOWS edges form one unbranched chain of 2 edges.
CE_C3_ConcurrentChainUnbranched ==
    (/\ Idle
     /\ Len(calls) = 3
     /\ AllOk
     /\ calls[1].seen = 1
     /\ Overlap(2, 3)
     /\ HasUser(calls[1].req)
     /\ \A c \in 2..3 : Identity(calls[c].req) = Identity(calls[1].req)
     /\ Cardinality({RequestId(calls[c].req) : c \in 1..3}) = 3)
    => /\ Cardinality(FollowsPairs) = 2
       /\ \A e, f \in FollowsPairs : e[1] = f[1] => e = f
       /\ \A c \in 2..3 : \E e \in FollowsPairs : e[2] = RequestId(calls[c].req)

\* C4: for two successfully ingested requests of one user, the second being the
\* user's next request, with timestamps T1 < T2 there is exactly one FOLLOWS edge
\* from the T1 request to the T2 request and it carries time_delta = T2 - T1; when
\* a timestamp is missing or unparsable the edge is still there with time_delta 0.
CE_C4_FollowsCarriesDelta ==
    Idle =>
    \A c, d \in 1..Len(calls) :
        (/\ c < d
         /\ calls[c].status = "ok" /\ calls[d].status = "ok"
         /\ HasUser(calls[c].req)
         /\ Identity(calls[c].req) = Identity(calls[d].req)
         /\ \A m \in (c + 1)..(d - 1) : Identity(calls[m].req) # Identity(calls[c].req)
         /\ RequestId(calls[c].req) # RequestId(calls[d].req)
         /\ (Timed(calls[c].req) /\ Timed(calls[d].req)
                => ParseIso(calls[c].req.timestamp) < ParseIso(calls[d].req.timestamp)))
        => /\ Cardinality({k \in RelsOf("FOLLOWS") :
                              /\ k[1][1] = RequestId(calls[c].req)
                              /\ k[3][1] = RequestId(calls[d].req)}) = 1
           /\ \A k \in RelsOf("FOLLOWS") :
                  (k[1][1] = RequestId(calls[c].req) /\ k[3][1] = RequestId(calls[d].req))
                  => store_rels[k].time_delta =
                        IF Timed(calls[c].req) /\ Timed(calls[d].req)
                        THEN ParseIso(calls[d].req.timestamp) - ParseIso(calls[c].req.timestamp)
                        ELSE 0

\* C5: after N >= 1 successful ingests of requests with one (method, path) the
\* store holds exactly one Endpoint node for the pair and exactly N TARGETS edges
\* pointing to it.
CE_C5_OneEndpointNTargets ==
    (Idle /\ AllOk) =>
    \A c \in 1..Len(calls) :
        LET same == {d \in 1..Len(calls) : /\ calls[d].req.method = calls[c].req.method
                                           /\ UrlPath(calls[d].req) = UrlPath(calls[c].req)}
            ends == {k \in NodesOf("Endpoint") :
                        /\ store_nodes[k].method = calls[c].req.method
                        /\ store_nodes[k].path = UrlPath(calls[c].req)}
        IN  /\ Cardinality(ends) = 1
            /\ Cardinality({r \in RelsOf("TARGETS") : r[3] \in ends}) = Cardinality(same)

\* C6: re-ingesting a request with an identical (URL, method, timestamp) creates no
\* second Endpoint, User or Resource node but does create a new Request node: the
\* number of Request nodes grows by one on the second ingest.
CE_C6_ReingestAddsRequestNode ==
    (/\ Idle
     /\ Len(calls) = 2
     /\ AllOk
     /\ calls[1].req = calls[2].req)
    => /\ Cardinality(NodesOf("Endpoint")) = 1
       /\ Cardinality(NodesOf("User")) <= 1
       /\ Cardinality(NodesOf("Resource")) <= 1
       /\ Cardinality(NodesOf("Request")) = 2

\* C7: Request, Parameter, Header, Body and BodyField nodes are instance-addressed:
\* two different occurrences (of one request or of two ingested requests) never
\* receive the same node id.
CE_C7_InstanceIdsDistinct ==
    LET occ == {<<c, n>> \in (1..Len(calls)) \X (1..12) :
                   /\ n <= Len(calls[c].graph_data.nodes)
                   /\ calls[c].graph_data.nodes[n].labels[1] \in InstanceKinds}
    IN  \A o, q \in occ :
            o # q => calls[o[1]].graph_data.nodes[o[2]].id # calls[q[1]].graph_data.nodes[q[2]].id

\* the draft nodes of call c whose first label is the given one
DraftNodes(c, label) ==
    {n \in Range(calls[c].graph_data.nodes) : n.labels[1] = label}

\* the identity a User node stands for, read from its properties
NodeIdentity(p) ==
    IF p.user_id # "unknown" THEN <<"id", p.user_id>> ELSE <<"username", p.username>>

SameEndpoint(p, q) == p.method = q.method /\ p.path = q.path
SameResource(p, q) == p.resource_type = q.resource_type /\ p.resource_id = q.resource_id

\* C8: Endpoint, User and Resource nodes are content-addressed: two requests with
\* the same (method, path), the same user identity or the same (resource type,
\* resource id) yield the same node id, and each such entity is one store node.
T_C8_ContentAddressed ==
    /\ \A c, d \in 1..Len(calls) :
          /\ \A n \in DraftNodes(c, "Endpoint"), m \in DraftNodes(d, "Endpoint") :
                 SameEndpoint(n.properties, m.properties) => n.id = m.id
          /\ \A n \in DraftNodes(c, "User"), m \in DraftNodes(d, "User") :
                 NodeIdentity(n.properties) = NodeIdentity(m.properties) => n.id = m.id
          /\ \A n \in DraftNodes(c, "Resource"), m \in DraftNodes(d, "Resource") :
                 SameResource(n.properties, m.properties) => n.id = m.id
    /\ \A k, l \in NodesOf("Endpoint") :
          SameEndpoint(store_nodes[k], store_nodes[l]) => k = l
    /\ \A k, l \in NodesOf("User") :
          NodeIdentity(store_nodes[k]) = NodeIdentity(store_nodes[l]) => k = l
    /\ \A k, l \in NodesOf("Resource") :
          SameResource(store_nodes[k], store_nodes[l]) => k = l
    /\ \A c \in 1..Len(calls) :
          calls[c].status = "ok" =>
              /\ \E k \in NodesOf("Endpoint") :
                     /\ store_nodes[k].method = calls[c].req.method
                     /\ store_nodes[k].path = UrlPath(calls[c].req)
              /\ HasUser(calls[c].req) =>
                     \E k \in NodesOf("User") : NodeIdentity(store_nodes[k]) = Identity(calls[c].req)
              /\ \A i \in 1..Len(ResourcesFound(calls[c].req)) :
                     \E k \in NodesOf("Resource") :
                         SameResource(store_nodes[k], ResourcesFound(calls[c].req)[i])

\* two different requests of one user to one endpoint and one resource were
\* ingested, and the store holds one Endpoint, one User and one Resource node
W_C8_TwoRequestsOneEntity ==
    /\ Idle
    /\ Len(calls) >= 2
    /\ calls[1].status = "ok" /\ calls[2].status = "ok"
    /\ RequestId(calls[1].req) # RequestId(calls[2].req)
    /\ Url(calls[1].req) # Url(calls[2].req)
    /\ calls[1].req.method = calls[2].req.method
    /\ UrlPath(calls[1].req) = UrlPath(calls[2].req)
    /\ HasUser(calls[1].req)
    /\ Identity(calls[1].req) = Identity(calls[2].req)
    /\ ResourcesFound(calls[1].req) # <<>>
    /\ Cardinality(NodesOf("Request")) = 2
    /\ Cardinality(NodesOf("Endpoint")) = 1
    /\ Cardinality(NodesOf("User")) = 1
    /\ Cardinality(NodesOf("Resource")) = 1

\* C9 as stated: no BodyField node is created beyond depth 5, so fields exist on
\* at most 5 nesting levels (the level of a field is its HAS_FIELD depth plus one).
CE_C9_AtMostFiveLevels ==
    \A k \in RelsOf("HAS_FIELD") : store_rels[k].depth + 1 <= MaxDepth

\* C9 amended: _parse_body_fields creates no BodyField node beyond its depth 5,
\* counted from 0 for the top-level keys, so fields exist on at most 6 nesting
\* levels; a body nested deeper is cut there and the mapping still yields a draft.
T_C9_DepthAtMostFive ==
    /\ \A k \in RelsOf("HAS_FIELD") : store_rels[k].depth \in 0..MaxDepth
    /\ \A c \in 1..Len(calls) :
          /\ \A i \in 1..Len(calls[c].graph_data.rels) :
                 calls[c].graph_data.rels[i].type = "HAS_FIELD"
                 => calls[c].graph_data.rels[i].properties.depth \in 0..MaxDepth
          /\ Cardinality(DraftNodes(c, "BodyField")) <= MaxDepth + 1
          /\ Truthy(calls[c].req.body) => Cardinality(DraftNodes(c, "Body")) = 1

\* a body nested deeper than the limit was ingested and its field at depth 5 is stored
W_C9_DeepBodyCut ==
    \E c \in 1..Len(calls) :
        /\ calls[c].status = "ok"
        /\ JsonLevels(calls[c].req.body) > MaxDepth + 1
        /\ Cardinality(DraftNodes(c, "BodyField")) = MaxDepth + 1
        /\ \E k \in RelsOf("HAS_FIELD") : store_rels[k].depth = MaxDepth

\* C10 as stated: whenever no load_request call is running, also after a call that
\* raised, every node that is not a Request or an Endpoint is the target of at
\* least one relationship of the store.
CE_C10_NoOrphanNodes ==
    Idle =>
    \A k \in DOMAIN store_nodes :
        ("Request" \notin k[2] /\ "Endpoint" \notin k[2])
        => \E r \in DOMAIN store_rels : r[3] = k

\* C10 amended: after a load_request call that returned, every node of its draft
\* graph that is not a Request or an Endpoint is in the store and is the target of
\* at least one relationship of the store; a call that raised may leave nodes
\* without one.
T_C10_NoOrphanAfterReturn ==
    \A c \in 1..Len(calls) :
        calls[c].status = "ok" =>
        \A n \in Range(calls[c].graph_data.nodes) :
            n.labels[1] \notin {"Request", "Endpoint"}
            => \E r \in DOMAIN store_rels :
                   /\ r[3] = <<n.id, Range(n.labels)>>
                   /\ r[3] \in DOMAIN store_nodes

\* a call returned whose draft has a node besides the Request and the Endpoint,
\* after an earlier call had raised
W_C10_ReturnedAfterRaise ==
    /\ Idle
    /\ \E c, d \in 1..Len(calls) :
          /\ c < d
          /\ calls[c].status = "raised"
          /\ calls[d].status = "ok"
          /\ \E n \in Range(calls[d].graph_data.nodes) :
                 n.labels[1] \notin {"Request", "Endpoint"}

\* the calls whose parsing raised, in HTTPParser or in YAMLRuleBasedParser
ParseFailed(c) == calls[c].failed \in {"request_line", "parse"}

\* C11: a request for which HTTPParser.parse_request or
\* YAMLRuleBasedParser.parse_request raises ends as a raised call, and the step in
\* which it raises leaves the store and the per-user table as they were: no node
\* and no relationship of the request is written.
T_C11_ParseFailureWritesNothing ==
    /\ [](\A c \in 1..Len(calls) :
            /\ (RequestLineRaises(calls[c].raw) \/ ParseRaises(calls[c].req))
               => calls[c].status = "raised" /\ ParseFailed(c)
            /\ ParseFailed(c)
               => /\ calls[c].nodes_created = 0
                  /\ calls[c].relationships_created = 0
            /\ calls[c].failed = "parse"
               => /\ \A k \in DOMAIN store_nodes : k[1] # RequestId(calls[c].req)
                  /\ \A k \in DOMAIN store_rels : k[1][1] # RequestId(calls[c].req))
    /\ [][(Len(calls') = Len(calls) + 1 /\ calls'[Len(calls')].status = "raised")
          => /\ store_nodes' = store_nodes
             /\ store_rels' = store_rels
             /\ user_last_request' = user_last_request]_vars

\* after a request was ingested, a request whose mapping raises was answered
W_C11_RaisedAfterIngest ==
    /\ Idle
    /\ store_nodes # <<>>
    /\ \E c, d \in 1..Len(calls) :
          /\ c < d
          /\ calls[c].status = "ok"
          /\ calls[d].failed = "parse"

\* C12: when the store fails the upsert of a node of a request, load_request
\* raises and issues no relationship upsert for the request: the call has counted
\* no relationship, no thread is past the node loop with a failed node, and no
\* relationship of the store starts or ends at the request.
T_C12_NoRelationshipAfterNodeFailure ==
    /\ \A c \in 1..Len(calls) :
          calls[c].failed = "nodes"
          => /\ calls[c].status = "raised"
             /\ calls[c].relationships_created = 0
             /\ calls[c].nodes_created < Len(calls[c].graph_data.nodes)
             /\ (\A d \in 1..Len(calls) :
                     d # c => RequestId(calls[d].req) # RequestId(calls[c].req))
                => \A k \in DOMAIN store_rels :
                       k[1][1] # RequestId(calls[c].req) /\ k[3][1] # RequestId(calls[c].req)
    /\ \A t \in Threads :
          pc[t] \in {"rels", "seq_read", "follows", "seq_write"}
          => /\ calls[frame[t].call].failed = ""
             /\ frame[t].nodes_created = Len(Draft(t).nodes)

\* the store failed a node upsert after some nodes of the request were written
W_C12_NodeUpsertFailed ==
    /\ Idle
    /\ \E c \in 1..Len(calls) :
          /\ calls[c].failed = "nodes"
          /\ calls[c].nodes_created >= 1
          /\ \E k \in DOMAIN store_nodes : k[1] = RequestId(calls[c].req)

\* the calls of the batch that ended with the given status, in call order
RECURSIVE CallsWith(_, _)
CallsWith(status, n) ==
    IF n = 0 THEN <<>>
    ELSE CallsWith(status, n - 1) \o (IF calls[n].status = status THEN <<n>> ELSE <<>>)

\* what load_requests has done so far agrees with its list and its stats
BatchAggregate ==
    batch.status # "none" =>
        /\ Len(calls) <= Len(batch.requests)
        /\ \A c \in 1..Len(calls) : calls[c].req = batch.requests[c]
        /\ batch.idx - 1 = Len(CallsWith("ok", Len(calls))) + Len(CallsWith("raised", Len(calls)))
        /\ batch.stats.total_requests = Len(batch.requests)
        /\ batch.stats.loaded_count = Len(CallsWith("ok", Len(calls)))
        /\ batch.stats.failed_count = Len(CallsWith("raised", Len(calls)))
        /\ Len(batch.stats.errors) = batch.stats.failed_count
        /\ \A j \in 1..Len(batch.stats.errors) :
               batch.stats.errors[j]
                   = "Failed to load request " \o IntStr(CallsWith("raised", Len(calls))[j])
        /\ batch.status = "done"
           => /\ Len(calls) = Len(batch.requests)
              /\ \A c \in 1..Len(calls) : calls[c].status \in {"ok", "raised"}
              /\ batch.stats.loaded_count + batch.stats.failed_count
                     = batch.stats.total_requests

\* the steps load_request has left on thread t when nothing fails
StepsLeft(t) ==
    CASE pc[t] = "nodes" -> (Len(Draft(t).nodes) - frame[t].i + 1) + Len(Draft(t).rels) + 3
      [] pc[t] = "rels" -> (Len(Draft(t).rels) - frame[t].i + 1) + 3
      [] pc[t] = "seq_read" -> 3
      [] pc[t] = "follows" -> 2
      [] pc[t] = "seq_write" -> 1
      [] OTHER -> 0

\* a step of the running load_requests brings its return nearer: it starts the
\* next request of the list, or it shortens what the running call has left, or it
\* is the return
BatchAdvances ==
    \/ Len(calls') = Len(calls) + 1 /\ Len(calls') <= Len(batch.requests)
    \/ Len(calls') = Len(calls) /\ StepsLeft("t1")' < StepsLeft("t1")
    \/ batch'.status = "done"

\* the running load_requests can take a step
BatchCanStep ==
    \/ pc["t1"] # "idle"
    \/ batch.idx <= Len(batch.requests) /\ Len(calls) < Len(batch.requests)
    \/ batch.idx > Len(batch.requests)

\* C13: load_requests calls load_request once for every request of its list, in list
\* order; a request that fails adds one error message and the following requests are
\* still ingested; the call always returns (while it runs it can take a step, and
\* every step brings the return nearer), and then loaded_count + failed_count =
\* total_requests and len(errors) = failed_count.
T_C13_BatchAggregates ==
    /\ [](BatchAggregate /\ (batch.status = "running" => BatchCanStep))
    /\ [][batch.status = "running" => BatchAdvances]_vars

\* a list whose first request failed and whose second request was ingested
W_C13_ContinuedPastFailure ==
    /\ batch.status = "done"
    /\ \E c, d \in 1..Len(calls) :
          /\ c < d
          /\ calls[c].status = "raised"
          /\ calls[d].status = "ok"
          /\ calls[d].nodes_created > 0
    /\ Len(batch.stats.errors) = 1

\* p is a beginning of str
IsPrefix(p, str) == Len(p) <= Len(str) /\ SubSeq(str, 1, Len(p)) = p

\* C14: a Header node written for a header of a sensitive category never stores the
\* header's value or a beginning of it; the value of any other Header node is the
\* header's value cut to at most 100 characters.
CE_C14_SensitiveValueRedacted ==
    \A c \in 1..Len(calls) :
        \A i \in 1..Len(calls[c].req.headers) :
            \A k \in NodesOf("Header") :
                k[1] = HeaderId(RequestId(calls[c].req), calls[c].req.headers[i][1], i - 1)
                => IF store_nodes[k].is_sensitive
                   THEN \/ store_nodes[k].value = ""
                        \/ ~IsPrefix(store_nodes[k].value, calls[c].req.headers[i][2])
                   ELSE /\ Len(store_nodes[k].value) <= ValueLimit
                        /\ store_nodes[k].value
                               = Truncate(calls[c].req.headers[i][2], ValueLimit)

\* C15: node and relationship upserts are idempotent: upserting a node or a
\* relationship of any request a second time leaves the store as the first upsert
\* left it, in every state the store can be in.
T_C15_UpsertsIdempotent ==
    \A c \in 1..Len(calls) :
        /\ \A i \in 1..Len(calls[c].graph_data.nodes) :
               LET node == calls[c].graph_data.nodes[i]
                   once == MergeNode(store_nodes, node)
               IN  /\ MergeNode(once, node) = once
                   /\ \E k \in DOMAIN once : k[1] = node.id
                   /\ Cardinality(DOMAIN once) <= Cardinality(DOMAIN store_nodes) + 1
        /\ \A i \in 1..Len(calls[c].graph_data.rels) :
               LET rel == calls[c].graph_data.rels[i]
                   once == MergeRel(store_nodes, store_rels, rel)
               IN  MergeRel(store_nodes, once, rel) = once

\* two different raw requests were ingested whose drafts share a node, so that an
\* upsert met a node that was already there
W_C15_UpsertOnExisting ==
    /\ Idle
    /\ \E c, d \in 1..Len(calls) :
          /\ c < d
          /\ calls[c].status = "ok" /\ calls[d].status = "ok"
          /\ calls[c].raw # calls[d].raw
          /\ \E i \in 1..Len(calls[c].graph_data.nodes), j \in 1..Len(calls[d].graph_data.nodes) :
                 calls[c].graph_data.nodes[i].id = calls[d].graph_data.nodes[j].id
    /\ store_rels # <<>>

\* what the calls so far returned as the given count, added up
RECURSIVE Counted(_, _)
Counted(field, n) ==
    IF n = 0 THEN 0 ELSE calls[n][field] + Counted(field, n - 1)

\* C16: the counts a successful load_request returns are the numbers of nodes and
\* of relationships that the call added to the store: after calls made one after
\* another on an empty store, all of which returned, the counts returned add up to
\* the numbers of nodes and of relationships in the store.
CE_C16_CountsWhatWasAdded ==
    (Idle /\ AllOk)
    => /\ Counted("nodes_created", Len(calls)) = Cardinality(DOMAIN store_nodes)
       /\ Counted("relationships_created", Len(calls)) = Cardinality(DOMAIN store_rels)

\* C17: HTTPParser.parse_request raises exactly for the raw requests whose request
\* line does not consist of three blank-separated fields, be they fewer or more.
CE_C17_ExactlyThreeFields ==
    \A c \in 1..Len(calls) :
        calls[c].failed = "request_line" <=> Len(calls[c].raw.start) # 3

\* the requests of the calls that returned and resolved to the identity of req
RECURSIVE LastOkOf(_, _)
LastOkOf(req, n) ==
    IF n = 0 THEN 0
    ELSE IF calls[n].status = "ok" /\ Identity(calls[n].req) = Identity(req) THEN n
    ELSE LastOkOf(req, n - 1)

\* C18: a load_request call that returns changes the per-user table at most at the
\* entry of the user of its request, which then holds that request's node id and
\* timestamp, and never another user's entry: when no call is running, every user
\* whose request was ingested has the entry that the last ingested request of that
\* user wrote, and there are no other entries.
CE_C18_TableFrame ==
    Idle =>
    /\ \A c \in 1..Len(calls) :
          (calls[c].status = "ok" /\ HasUser(calls[c].req))
          => /\ TableKey(calls[c].graph_data) \in DOMAIN user_last_request
             /\ user_last_request[TableKey(calls[c].graph_data)]
                    = <<RequestId(calls[LastOkOf(calls[c].req, Len(calls))].req),
                        calls[LastOkOf(calls[c].req, Len(calls))].req.timestamp>>
    /\ \A key \in DOMAIN user_last_request :
          \E c \in 1..Len(calls) :
              /\ calls[c].status = "ok"
              /\ HasUser(calls[c].req)
              /\ TableKey(calls[c].graph_data) = key

\* the HAS_BODY relationships of the draft of call c
DraftRels(c, type) ==
    {i \in 1..Len(calls[c].graph_data.rels) : calls[c].graph_data.rels[i].type = type}

\* C19: the draft graph of a request has exactly one Body node and one HAS_BODY
\* edge when the body of the request is not empty, also when it is the JSON text
\* of an empty object, an empty array, 0 or false, and none when the body is empty.
CE_C19_OneBodyPerNonEmptyBody ==
    \A c \in 1..Len(calls) :
        calls[c].failed \notin {"request_line", "parse"}
        => IF Blank(calls[c].raw.body_raw)
           THEN DraftNodes(c, "Body") = {} /\ DraftRels(c, "HAS_BODY") = {}
           ELSE /\ Cardinality(DraftNodes(c, "Body")) = 1
                /\ Cardinality(DraftRels(c, "HAS_BODY")) = 1

\* the rules of a list that match a path
Matching(patterns, path) ==
    {k \in 1..Len(patterns) : Regex(patterns[k].pattern, path) # NoMatch}

\* the list with the rules at i and j exchanged
Swap(patterns, i, j) ==
    [k \in 1..Len(patterns) |->
        IF k = i THEN patterns[j] ELSE IF k = j THEN patterns[i] ELSE patterns[k]]

JwtClaim(req, claims) ==
    LET payload == DecodeJwtPayload(BearerToken(DictGet(req.headers, "Authorization", "")))
        present == {k \in 1..Len(claims) : DictHas(payload, claims[k])}
    IN  IF present = {} THEN NoVal
        ELSE DictGet(payload, claims[CHOOSE k \in present : \A j \in present : k <= j], NoVal)

\* the text the last cookie pattern of a kind captures in the Cookie header
CookieCapture(req, kind) ==
    LET patterns == UserExtraction.cookie.patterns
        hits == {k \in 1..Len(patterns) :
                    /\ CookiePatternKind(patterns[k]) = kind
                    /\ Regex(patterns[k], DictGet(req.headers, "Cookie", "")) # NoMatch}
    IN  IF hits = {} THEN NoVal
        ELSE Regex(patterns[CHOOSE k \in hits : \A j \in hits : j <= k],
                   DictGet(req.headers, "Cookie", ""))

\* the call got its draft graph from parse_request
Mapped(c) == calls[c].failed \notin {"request_line", "parse"}

\* C21: the draft graph holds a User node and an AUTHENTICATED_AS edge exactly when
\* the JWT or, failing a JWT identifier, a cookie rule gave an identifier or a
\* username, and never more than one of either; an identifier from the JWT is kept
\* whatever the Cookie header holds.
T_C21_UserIffFound ==
    \A c \in 1..Len(calls) :
        Mapped(c) =>
        LET req == calls[c].req
            jwt_id == JwtClaim(req, UserExtraction.jwt.user_id_claims)
            jwt_name == JwtClaim(req, UserExtraction.jwt.username_claims)
            found == \/ Found(jwt_id) \/ Found(jwt_name)
                     \/ (~Found(jwt_id) /\ \/ Found(CookieCapture(req, "user_id"))
                                           \/ Found(CookieCapture(req, "username")))
            users == {i \in 1..Len(calls[c].graph_data.nodes) :
                         calls[c].graph_data.nodes[i].labels[1] = "User"}
        IN  /\ Cardinality(users) = IF found THEN 1 ELSE 0
            /\ Cardinality(DraftRels(c, "AUTHENTICATED_AS")) = IF found THEN 1 ELSE 0
            /\ \A i \in users, j \in DraftRels(c, "AUTHENTICATED_AS") :
                   /\ calls[c].graph_data.rels[j].source_id = RequestId(req)
                   /\ calls[c].graph_data.rels[j].target_id = calls[c].graph_data.nodes[i].id
                   /\ Found(jwt_id)
                      => /\ calls[c].graph_data.nodes[i].properties.user_id = jwt_id
                         /\ calls[c].graph_data.nodes[i].properties.auth_method = "jwt"
                   /\ (~Found(jwt_id) /\ Found(CookieCapture(req, "user_id")))
                      => /\ calls[c].graph_data.nodes[i].properties.user_id
                                = CookieCapture(req, "user_id")
                         /\ calls[c].graph_data.nodes[i].properties.auth_method = "cookie"

\* a request whose JWT gives an identifier and whose Cookie header another one, a
\* request whose JWT gives a name only, and a request without credentials were mapped
W_C21_JwtBeforeCookie ==
    /\ \E c \in 1..Len(calls) :
          /\ Mapped(c)
          /\ Found(JwtClaim(calls[c].req, UserExtraction.jwt.user_id_claims))
          /\ Found(CookieCapture(calls[c].req, "user_id"))
          /\ CookieCapture(calls[c].req, "user_id")
                 # JwtClaim(calls[c].req, UserExtraction.jwt.user_id_claims)
          /\ DraftNodes(c, "User") # {}
    /\ \E c \in 1..Len(calls) :
          /\ Mapped(c)
          /\ \/ DraftNodes(c, "User") = {}
             \/ /\ ~Found(JwtClaim(calls[c].req, UserExtraction.jwt.user_id_claims))
                /\ Found(JwtClaim(calls[c].req, UserExtraction.jwt.username_claims))
                /\ Found(CookieCapture(calls[c].req, "user_id"))

\* the (resource type, resource id) pairs a request names, read off the request and
\* the rule set: in its path, and in its query parameters
PathPairs(req) ==
    {<<ResourceExtraction.url_patterns[k].resource_type,
       Regex(ResourceExtraction.url_patterns[k].pattern, UrlPath(req))>> :
        k \in {j \in 1..Len(ResourceExtraction.url_patterns) :
                  /\ Regex(ResourceExtraction.url_patterns[j].pattern, UrlPath(req)) # NoMatch
                  /\ \A i \in 1..(j - 1) :
                         Regex(ResourceExtraction.url_patterns[i].pattern, UrlPath(req))
                             = NoMatch}}

QueryPairs(req) ==
    UNION {{<<ResourceParams[k][1], req.query[i][2]>> :
               i \in {j \in 1..Len(req.query) :
                         /\ req.query[j][1] = ResourceParams[k][2]
                         /\ \A h \in 1..(j - 1) : req.query[h][1] # req.query[j][1]}} :
           k \in 1..Len(ResourceParams)}

\* C22: the draft graph of a request holds exactly one Resource node and one
\* ACCESSES edge for every (resource type, resource id) pair found in the path or
\* in a query parameter, however often the pair was found, and a pair that the URL
\* rule found has the operation of the HTTP method.
T_C22_OneResourcePerPair ==
    \A c \in 1..Len(calls) :
        Mapped(c) =>
        LET req == calls[c].req
            g == calls[c].graph_data
            pairs == PathPairs(req) \cup QueryPairs(req)
            NodesFor(pr) == {i \in 1..Len(g.nodes) :
                                /\ g.nodes[i].labels[1] = "Resource"
                                /\ g.nodes[i].properties.resource_type = pr[1]
                                /\ g.nodes[i].properties.resource_id = pr[2]}
            RelsFor(pr) == {i \in DraftRels(c, "ACCESSES") :
                               g.rels[i].target_id = ResourceNodeId(pr[1], pr[2])}
        IN  /\ \A pr \in pairs :
                  /\ Cardinality(NodesFor(pr)) = 1
                  /\ Cardinality(RelsFor(pr)) = 1
                  /\ \A i \in NodesFor(pr), j \in RelsFor(pr) :
                         /\ g.nodes[i].properties.operation
                                = IF pr \in PathPairs(req)
                                  THEN CASE req.method = "GET" -> "read"
                                         [] req.method = "POST" -> "create"
                                         [] req.method \in {"PUT", "PATCH"} -> "update"
                                         [] req.method = "DELETE" -> "delete"
                                         [] OTHER -> "access"
                                  ELSE "access"
                         /\ g.rels[j].properties.operation = g.nodes[i].properties.operation
            /\ Cardinality(DraftNodes(c, "Resource")) = Cardinality(pairs)
            /\ Cardinality(DraftRels(c, "ACCESSES")) = Cardinality(pairs)

\* requests were mapped in which one pair is found in the path and in a query
\* parameter, and in two query parameters
W_C22_PairFoundTwice ==
    /\ \E c \in 1..Len(calls) :
          /\ Mapped(c)
          /\ calls[c].req.method # "GET"
          /\ PathPairs(calls[c].req) \cap QueryPairs(calls[c].req) # {}
          /\ DraftNodes(c, "Resource") # {}
    /\ \E c \in 1..Len(calls) :
          /\ Mapped(c)
          /\ PathPairs(calls[c].req) = {}
          /\ Len(calls[c].req.query) = 2
          /\ Cardinality(QueryPairs(calls[c].req)) = 1
          /\ DraftNodes(c, "Resource") # {}

\* the node lists of the converter's graph data
Kinds == {"endpoints", "requests", "responses", "sessions", "resources", "parameters"}

\* C23: in the graph data that the converter returns, every node of every kind has
\* a generated id, no two nodes the same, no node carries an endpoint_index or
\* request_index any more, and requests, responses, parameters and resources that
\* referred to an array position that exists carry the id of the node at that position.
CE_C23_NoIndexLeft ==
    data.stage = "converted" =>
        /\ \A kind \in Kinds : \A i \in 1..Len(data.nodes[kind]) :
               /\ Has(data.nodes[kind][i], "id")
               /\ ~Has(data.nodes[kind][i], "endpoint_index")
               /\ ~Has(data.nodes[kind][i], "request_index")
               /\ \A other \in Kinds : \A j \in 1..Len(data.nodes[other]) :
                      data.nodes[kind][i].id = data.nodes[other][j].id
                      => (kind = other /\ i = j)
        /\ \A i \in 1..Len(data.nodes.requests) :
               Has(data.nodes.requests[i], "endpoint_id")
               => \E j \in 1..Len(data.nodes.endpoints) :
                      data.nodes.endpoints[j].id = data.nodes.requests[i].endpoint_id
        /\ \A kind \in {"responses", "parameters", "resources"} :
               \A i \in 1..Len(data.nodes[kind]) :
                   Has(data.nodes[kind][i], "request_id")
                   => \E j \in 1..Len(data.nodes.requests) :
                          data.nodes.requests[j].id = data.nodes[kind][i].request_id

\* a path segment that consists of digits, or has the shape of a UUID
AllDigits(seg) == seg # "" /\ \A k \in 1..Len(seg) : Char(seg, k) \in Digits
UuidShaped(seg) == Len(seg) = UuidLen /\ UuidAt(seg, 1)

\* the end of the path segment that starts at position i
RECURSIVE SegmentEnd(_, _)
SegmentEnd(str, i) ==
    IF i <= Len(str) /\ Char(str, i) # "/" THEN SegmentEnd(str, i + 1) ELSE i - 1

\* a path with each of its segments from position i on rewritten on its own
RECURSIVE Normalised(_, _)
Normalised(str, i) ==
    IF i > Len(str) THEN ""
    ELSE IF Char(str, i) = "/"
    THEN LET seg == SubSeq(str, i + 1, SegmentEnd(str, i + 1))
         IN  "/" \o (IF AllDigits(seg) \/ UuidShaped(seg) THEN "{id}" ELSE seg)
                 \o Normalised(str, SegmentEnd(str, i + 1) + 1)
    ELSE SubSeq(str, i, SegmentEnd(str, i)) \o Normalised(str, SegmentEnd(str, i) + 1)

\* C24: the endpoint pattern of a message is its path with every segment that is
\* all digits or UUID-shaped (also a UUID that begins with a digit) replaced by
\* {id} and every other segment unchanged.
CE_C24_SegmentsRewritten ==
    \A c \in 1..Len(processed) :
        processed[c].pattern = Normalised(processed[c].msg.path, 1)

\* the Endpoint nodes of the store for a method and a pattern
EndpointsFor(method, pattern) ==
    {k \in NodesOf("Endpoint") :
        store_nodes[k].method = method /\ store_nodes[k].pattern = pattern}

\* C30: on one GraphBuilder the store holds at most one Endpoint node per (method,
\* endpoint pattern), two messages have the same endpoint id exactly when they have
\* the same method and pattern, endpoint_cache maps the key of every message that
\* got its endpoint to the id of that node, every TARGETS edge leads from the
\* request of a message to the cached id of its key, and a process_message call
\* that fails at the Endpoint upsert leaves endpoint_cache and the store unchanged.
T_C30_OneEndpointPerKey ==
    /\ [](/\ \A c \in 1..Len(processed) :
               processed[c].endpoint_id # NoVal
               => /\ processed[c].key \in DOMAIN endpoint_cache
                  /\ endpoint_cache[processed[c].key] = processed[c].endpoint_id
                  /\ EndpointsFor(processed[c].msg.method, processed[c].pattern)
                         = {<<processed[c].endpoint_id, {"Endpoint"}>>}
          /\ \A c, d \in 1..Len(processed) :
               (processed[c].endpoint_id # NoVal /\ processed[d].endpoint_id # NoVal)
               => (processed[c].endpoint_id = processed[d].endpoint_id
                   <=> /\ processed[c].msg.method = processed[d].msg.method
                       /\ processed[c].pattern = processed[d].pattern)
          /\ Cardinality(NodesOf("Endpoint")) = Cardinality(DOMAIN endpoint_cache)
          /\ \A e \in RelsOf("TARGETS") :
               \E c \in 1..Len(processed) :
                   /\ e[1][1] = processed[c].request_id
                   /\ e[3][1] = endpoint_cache[processed[c].key]
          /\ \A c \in 1..Len(processed) :
               processed[c].status = "ok"
               => \E e \in RelsOf("TARGETS") : e[1][1] = processed[c].request_id)
    /\ [][(/\ processed # <<>>
           /\ Len(processed') = Len(processed)
           /\ processed[Len(processed)].status = "running"
           /\ processed'[Len(processed)].failed = "endpoint")
          => (endpoint_cache' = endpoint_cache /\ store_nodes' = store_nodes)]_vars

\* two messages with different paths and one (method, pattern) were processed, the
\* second one after the Endpoint upsert of the first had failed
W_C30_KeySeenTwice ==
    /\ builder.pc = "idle"
    /\ Len(processed) = 2
    /\ processed[1].msg.path # processed[2].msg.path
    /\ processed[1].key = processed[2].key
    /\ processed[1].failed = "endpoint"
    /\ processed[2].status = "ok"
    /\ Cardinality(NodesOf("Endpoint")) = 1
    /\ Cardinality(RelsOf("TARGETS")) = 1

\* a message met its key in the cache
W_C30_CacheHit ==
    /\ builder.pc = "idle"
    /\ Len(processed) = 2
    /\ processed[1].msg.path # processed[2].msg.path
    /\ processed[1].status = "ok" /\ processed[2].status = "ok"
    /\ processed[1].endpoint_id = processed[2].endpoint_id
    /\ Cardinality(NodesOf("Endpoint")) = 1
    /\ Cardinality(RelsOf("TARGETS")) = 2

\* the last call before d that returned and wrote the table entry with this key
RECURSIVE LastWriter(_, _)
LastWriter(key, n) ==
    IF n = 0 THEN 0
    ELSE IF /\ calls[n].status = "ok"
            /\ UserNodeOf(calls[n].graph_data).id # NoVal
            /\ TableKey(calls[n].graph_data) = key
    THEN n
    ELSE LastWriter(key, n - 1)

\* C25: a load_request call that raises leaves the per-user table as it was, so
\* that, when no call is running, the table holds exactly what the calls that
\* returned wrote last; and a request of a user that is ingested after a call of
\* that user has raised follows a request of the same user whose ingest completed.
CE_C25_RaiseKeepsChain ==
    Idle =>
    /\ \A key \in DOMAIN user_last_request :
          /\ LastWriter(key, Len(calls)) # 0
          /\ user_last_request[key]
                 = <<RequestId(calls[LastWriter(key, Len(calls))].req),
                     calls[LastWriter(key, Len(calls))].req.timestamp>>
    /\ \A c, d \in 1..Len(calls) :
          (/\ c < d
           /\ calls[c].status = "raised"
           /\ calls[d].status = "ok"
           /\ HasUser(calls[c].req)
           /\ Identity(calls[c].req) = Identity(calls[d].req))
          => \A e \in FollowsPairs :
                 e[2] = RequestId(calls[d].req)
                 => \E b \in 1..Len(calls) :
                        /\ calls[b].status = "ok"
                        /\ Identity(calls[b].req) = Identity(calls[d].req)
                        /\ RequestId(calls[b].req) = e[1]

\* C26: the ids of User, Resource and Endpoint nodes are injective: two draft nodes
\* with the same id stand for the same user identity (an identifier, or a username
\* when there is no identifier), the same (resource type, resource id) or the same
\* (method, path).
CE_C26_IdsInjective ==
    \A c, d \in 1..Len(calls) :
        /\ \A n \in DraftNodes(c, "User"), m \in DraftNodes(d, "User") :
               n.id = m.id => NodeIdentity(n.properties) = NodeIdentity(m.properties)
        /\ \A n \in DraftNodes(c, "Resource"), m \in DraftNodes(d, "Resource") :
               n.id = m.id => SameResource(n.properties, m.properties)
        /\ \A n \in DraftNodes(c, "Endpoint"), m \in DraftNodes(d, "Endpoint") :
               n.id = m.id => SameEndpoint(n.properties, m.properties)

\* the batches given to threads so far, one after the other
Dispatched == Concat([k \in 1..Len(dispatched) |-> dispatched[k].batch])

\* no thread is inside "with self.lock"
Unlocked == \A t \in Threads : worker[t].pc \in {"idle", "acquire"}

\* C27: under every interleaving of add_message and flush calls no message is
\* lost or handed over twice and the order of arrival is kept: whenever no call is
\* inside the lock, the batches given to process_callback threads, one after the
\* other, followed by current_batch, are the added messages in the order of
\* their arrival; after a flush that no add_message followed current_batch is
\* empty, so every message is in exactly one batch; no batch is processed twice.
T_C27_EveryMessageInOneBatch ==
    /\ Unlocked
       => /\ Dispatched \o processor.current_batch = processor.arrivals
          /\ Len(processor.arrivals) = processor.completed
          /\ \A i, j \in 1..Len(processor.arrivals) :
                 processor.arrivals[i] = processor.arrivals[j] => i = j
          /\ processor.last = "flush" => processor.current_batch = <<>>
    /\ \A k \in 1..Len(dispatched) : dispatched[k].called <= 1

\* every add_message call was made, two of them at once, a flush came last, and
\* every batch was processed
W_C27_FlushedAfterAdds ==
    /\ Unlocked
    /\ processor.completed = MaxAdds
    /\ processor.last = "flush"
    /\ processor.arrivals # [i \in 1..MaxAdds |-> i]
    /\ Len(dispatched) >= 2
    /\ \A k \in 1..Len(dispatched) : dispatched[k].called = 1

\* C28: whenever the lock is free, current_batch holds fewer than batch_size
\* messages and message_count is the number of add_message calls completed; a batch
\* dispatched by add_message holds batch_size messages, one dispatched by flush
\* between 1 and batch_size - 1.
T_C28_BatchSizes ==
    /\ processor.lock = "free"
       => /\ 0 <= Len(processor.current_batch)
          /\ Len(processor.current_batch) < processor.batch_size
          /\ processor.message_count = processor.completed
    /\ \A k \in 1..Len(dispatched) :
          IF dispatched[k].by = "add"
          THEN Len(dispatched[k].batch) = processor.batch_size
          ELSE /\ 1 <= Len(dispatched[k].batch)
               /\ Len(dispatched[k].batch) <= processor.batch_size - 1

\* every add_message call was made, a batch was dispatched by add_message and
\* one by flush, and the lock is free
W_C28_BothKindsOfBatch ==
    /\ processor.lock = "free"
    /\ processor.batch_size >= 2
    /\ processor.message_count = MaxAdds
    /\ \E k \in 1..Len(dispatched) : dispatched[k].by = "add"
    /\ \E k \in 1..Len(dispatched) : dispatched[k].by = "flush"

\* the lines of a raw text, and the place of its first blank line (0: none)
LinesOf(raw) == Split(raw, CRLF, Len(raw))

FirstBlank(raw) ==
    IF \E k \in 2..Len(LinesOf(raw)) : LinesOf(raw)[k] = ""
    THEN CHOOSE k \in 2..Len(LinesOf(raw)) :
             LinesOf(raw)[k] = "" /\ \A j \in 2..(k - 1) : LinesOf(raw)[j] # ""
    ELSE 0

AfterFirstBlank(raw) ==
    IF FirstBlank(raw) = 0 THEN ""
    ELSE Join(CRLF, SubSeq(LinesOf(raw), FirstBlank(raw) + 1, Len(LinesOf(raw))))

\* C29: the body parse_request returns is made of the text after the first
\* blank line of the raw request only, and a raw request without a blank line
\* has the body None.
CE_C29_BodyFollowsBlankLine ==
    \A c \in 1..Len(calls) :
        calls[c].status = "parsed"
        => /\ calls[c].req.body
                = ParseBody(AfterFirstBlank(calls[c].raw),
                            DictGet(calls[c].req.headers, "Content-Type", ""))
           /\ FirstBlank(calls[c].raw) = 0 => calls[c].req.body = JNone

\* the same for the raw requests that have a blank line
P_C29_WithBlankLine ==
    \A c \in 1..Len(calls) :
        (calls[c].status = "parsed" /\ FirstBlank(calls[c].raw) # 0)
        => calls[c].req.body
              = ParseBody(AfterFirstBlank(calls[c].raw),
                          DictGet(calls[c].req.headers, "Content-Type", ""))

====
